---- MODULE Spec2Model ----
(***************************************************************************)
(* A model of the iskandar reverse tunnel: the ingress (tunnel-server) with *)
(* its Connection Store, Request Manager, tunnel session handler and public *)
(* request handler, and the client (iskndr) with its session loop and       *)
(* request forwarders, joined by one full-duplex message transport per      *)
(* tunnel.                                                                  *)
(***************************************************************************)
EXTENDS Integers, Sequences, FiniteSets, TLC

\* ---------------------------------------------------------------- bounds
\* Tunnel connections (one client process each) the model follows.
NumSessions == 1
\* Public HTTP requests the model follows.
NumRequests == 2
\* Reads of the origin body that do not end the response (per request).
MaxReads == 1
\* The largest per-tunnel request ceiling the Request Manager is constructed with.
MaxCeiling == 2
\* Tunnel connections the Connection Store specification (SpecStore) follows.
NumTunnels == 2
\* cfg.MaxTunnels: the tunnel ceiling the server is configured with.
MaxTunnels == 1
\* Fragments a channel is handed apart from the forwarders' (by the caller of
\* writeProxiedResponse, by a peer that sends foreign ids), at most.
MaxFragments == 3
\* The highest count kept of the writes, flushes and fragments of one public response.
MaxTally == 4

\* ------------------------------------------------------ program constants
\* make(MessageChannel, 5)
MailboxCap == 5
StatusBadRequest == 400
StatusNotFound == 404
StatusRequestEntityTooLarge == 413
StatusInternalServerError == 500
StatusBadGateway == 502
StatusServiceUnavailable == 503
StatusGatewayTimeout == 504
\* const MaxBodySize = 4 * 1024 * 1024
MaxBodySize == 4 * 1024 * 1024
\* The status the origin answers with (any valid HTTP status; 200 in the spec's scenarios).
OriginStatus == 200

Sessions == 1 .. NumSessions
Requests == 1 .. NumRequests
\* The keys generateSubdomainKey may draw: one stands for all 36^8, so that a
\* public request can name a live tunnel.
Keys == {"abc12345"}
\* The keys drawn in the Connection Store specification: two, so that two
\* tunnels may draw different keys or the same one.
StoreKeys == Keys \cup {"k9z8y7x6"}
Tunnels == 1 .. NumTunnels
\* Host headers of public requests: a tunnel's host, an unknown one, a bare name.
Hosts == {<<k, "example", "com">> : k \in Keys \cup {"ghost"}} \cup {<<"localhost">>}
\* Lengths of public request bodies: the ceiling and one byte more.
BodySizes == {MaxBodySize, MaxBodySize + 1}
NoConn == 0
NoChan == 0
\* The body of a request that was not read (yet): its length and whether the
\* read of the connection fails.
NoBody == [size |-> 0, fails |-> FALSE]

VARIABLES
    connMap,            \* InMemoryConnectionStore.connMap: key -> connection (its session)
    requestChannelMap,  \* InMemoryRequestManager.requestChannelMap: the ids that have an entry
    requestCounts,      \* InMemoryRequestManager.requestCounts: key -> count (partial)
    maxPerTunnel,       \* InMemoryRequestManager.maxPerTunnel, set by the constructor
    bodyReads,          \* the origin: how many reads of a response body may return without ending it
    cmd,                \* the client command: its arguments and what parsing made of them
    call,               \* the last call of a caller that uses the Request Manager on its own
    chan,               \* the channel made for each request id: buffer and closed flag
    conn,               \* per tunnel connection: "none", "open", "closed"
    down,               \* messages in flight ingress -> client, per connection
    up,                 \* messages in flight client -> ingress, per connection
    sess,               \* handleTunnelConnect of each connection: position, key, message in hand
    hnd,                \* handleRequest of each public request: position, subdomain, connection
    out,                \* the public response of each request (http.ResponseWriter)
    cli,                \* the client process of each connection: position
    fwd,                \* sendResponse of each request on the client: position, loop state
    sentReq,            \* history: ids whose request message was written to a transport
    droppedLive,        \* history: ids a fragment of which was dropped while its handler ran
    delivered,          \* history: fragments put into each request's mailbox, in order
    emitted             \* history: fragments each forwarder handed to WriteJSON, in order

vars == <<connMap, requestChannelMap, requestCounts, maxPerTunnel, bodyReads, cmd, call, chan, conn, down, up, sess, hnd,
          out, cli, fwd, sentReq, droppedLive, delivered, emitted>>

\* ------------------------------------------------------------- messages
\* protocol.Message (and RegisterTunnelMessage, type "register"), one record shape.
Message(type, id, status, hdr, body, done) ==
    [type |-> type, id |-> id, status |-> status, hdr |-> hdr, body |-> body, done |-> done]

RegisterTunnelMessage == Message("register", 0, 0, FALSE, <<>>, FALSE)
RequestMessage(id) == Message("request", id, 0, FALSE, <<>>, FALSE)
\* What the peer reads when two writes ran into each other on the raw connection.
Garbled == Message("garbled", 0, 0, FALSE, <<>>, FALSE)
NoMessage == Message("none", 0, 0, FALSE, <<>>, FALSE)

\* -------------------------------------------------- shared.SafeWebSocketConn
\* The wrapper's write lock is held by the one caller that is inside WriteJSON:
\* a public handler at "Writing" on the ingress, a forwarder at "Writing" on the
\* client.  The session handler writes the registration on the raw connection.
IngressSafeWriters(s) == {r \in Requests : hnd[r].pc = "Writing" /\ hnd[r].conn = s}
IngressRawWriters(s) == IF sess[s].pc = "RegWriting" THEN {0} ELSE {}
IngressWriters(s) == IngressSafeWriters(s) \cup IngressRawWriters(s)
ClientWriters(s) == {r \in Requests : fwd[r].pc = "Writing" /\ fwd[r].conn = s}

\* SafeWebSocketConn.WriteJSON takes the mutex: it is free when nobody holds it.
IngressMuFree(s) == IngressSafeWriters(s) = {}
ClientMuFree(s) == ClientWriters(s) = {}

\* What a finished write leaves on the transport: the message, or, when another
\* write was in progress on the same raw connection, possibly broken framing.
Written(m, others) == IF others = {} THEN {m} ELSE {m, Garbled}

\* ------------------------------------------------- InMemoryConnectionStore
\* generateSubdomainKey: eight draws from the charset; any key of the key space
\* (the keys connMap is kept over) may come out.
generateSubdomainKey == DOMAIN connMap

\* The error RegisterConnection returns: always nil.
RegisterConnectionError == "nil"

\* i.connMap[subdomainKey] = NewSafeWebSocketConn(conn), whatever was there.
RegisterConnection(s, key) == [connMap EXCEPT ![key] = s]

\* len(connMap): the keys that have an entry.
LiveKeys == {k \in DOMAIN connMap : connMap[k] # NoConn}

GetConnectionAny(subdomainKey) ==
    IF LiveKeys # {} THEN connMap[CHOOSE k \in LiveKeys : TRUE] ELSE NoConn

GetConnection(subdomainKey) ==
    IF subdomainKey \in DOMAIN connMap THEN connMap[subdomainKey] ELSE NoConn

RemoveConnectionSkipped(subdomainKey) == connMap

RemoveConnectionAll(subdomainKey) == [k \in DOMAIN connMap |-> NoConn]

\* delete(i.connMap, subdomainKey)
RemoveConnection(subdomainKey) == [connMap EXCEPT ![subdomainKey] = NoConn]

\* -------------------------------------------------- InMemoryRequestManager
Count(counts, subdomain) == IF subdomain \in DOMAIN counts THEN counts[subdomain] ELSE 0

SetCount(counts, subdomain, n) ==
    [k \in DOMAIN counts \cup {subdomain} |-> IF k = subdomain THEN n ELSE counts[k]]

DeleteCountSkipped(counts, subdomain) == counts

DeleteCount(counts, subdomain) == [k \in DOMAIN counts \ {subdomain} |-> counts[k]]

\* The channel handle stored under the id, or NoChan (ok = false).  The channel
\* made for request id r is chan[r].
GetRequestChannelAny(requestId) ==
    IF requestChannelMap # {} THEN CHOOSE c \in requestChannelMap : TRUE ELSE NoChan

GetRequestChannel(requestId) ==
    IF requestId \in requestChannelMap THEN requestId ELSE NoChan

RegisterRequestFailsAbove(subdomain) == Count(requestCounts, subdomain) > maxPerTunnel

RegisterRequestFails(subdomain) == Count(requestCounts, subdomain) >= maxPerTunnel

\* RegisterRequest below the ceiling: make the channel, store it, count it.
RegisterRequest(requestId, subdomain) ==
    /\ chan' = [chan EXCEPT ![requestId] = [buf |-> <<>>, closed |-> FALSE]]
    /\ requestChannelMap' = requestChannelMap \cup {requestId}
    /\ requestCounts' = SetCount(requestCounts, subdomain, Count(requestCounts, subdomain) + 1)

DecrementSkipped(subdomain) == requestCounts

DecrementedCounts(subdomain) ==
    LET c1 == IF Count(requestCounts, subdomain) > 0
              THEN SetCount(requestCounts, subdomain, Count(requestCounts, subdomain) - 1)
              ELSE requestCounts
    IN  IF Count(c1, subdomain) = 0 THEN DeleteCount(c1, subdomain) ELSE c1

RemoveRequestLeavesOpen(requestId, subdomain) ==
    IF requestId \in requestChannelMap
    THEN /\ requestChannelMap' = requestChannelMap \ {requestId}
         /\ requestCounts' = DecrementedCounts(subdomain)
         /\ UNCHANGED chan
    ELSE UNCHANGED <<chan, requestChannelMap, requestCounts>>

RemoveRequestAlways(requestId, subdomain) ==
    /\ chan' = [chan EXCEPT ![requestId].closed = TRUE]
    /\ requestChannelMap' = requestChannelMap \ {requestId}
    /\ requestCounts' = DecrementedCounts(subdomain)

RemoveRequest(requestId, subdomain) ==
    IF requestId \in requestChannelMap
    THEN /\ chan' = [chan EXCEPT ![requestId].closed = TRUE]
         /\ requestChannelMap' = requestChannelMap \ {requestId}
         /\ requestCounts' = DecrementedCounts(subdomain)
    ELSE UNCHANGED <<chan, requestChannelMap, requestCounts>>

\* A call of the Request Manager by a caller of its own (as its tests are): the
\* method, its arguments, and whether the id had a mailbox when it was called.
ManagerCall(op, requestId, subdomain, ok) ==
    [op |-> op, id |-> requestId, sub |-> subdomain, ok |-> ok]

NoCall == ManagerCall("none", 0, "", FALSE)

\* config.ExtractAssignedSubdomain: the host's first label; an error ("") when the
\* host has fewer than two labels.
ExtractAssignedSubdomain(host) == IF Len(host) < 2 THEN "" ELSE host[1]

\* ------------------------------------------------------ http.ResponseWriter
\* http.Error on the ResponseWriter of the tunnel-connect request: once Upgrade
\* has hijacked the connection nothing can be written to it (WriteHeader and
\* Write refuse); 0 is no reply.
TunnelHttpError(hijacked, code) == IF hijacked THEN 0 ELSE code

\* What a failed Upgrade has replied already (the handshake was refused, or the
\* hijack failed); the handler's own http.Error comes after it and changes nothing.
UpgradeErrorReplies == {StatusBadRequest, StatusInternalServerError}

\* The counts the response writer of the tests keeps (flushCount++), and the
\* like for writes and for fragments taken from the mailbox: exact up to
\* MaxTally, where they stay.
Tally(n) == IF n < MaxTally THEN n + 1 ELSE n

NoResponse ==
    [status |-> 0, hdr |-> FALSE, body |-> <<>>, recvd |-> 0, writes |-> 0, flushes |-> 0, late |-> FALSE]

\* http.Error: sets the status unless the header has been written already.
HttpError(o, code) ==
    IF o.status = 0 THEN [o EXCEPT !.status = code] ELSE [o EXCEPT !.late = TRUE]

\* w.WriteHeader: writes the status line unless it has been written already
\* (then the call is superfluous, and recorded as late).
WriteHeader(o, code) ==
    IF o.status = 0 THEN [o EXCEPT !.status = code] ELSE [o EXCEPT !.late = TRUE]

WriteReplaces(o, body) == [o EXCEPT !.body = body, !.writes = Tally(@)]

Write(o, body) == [o EXCEPT !.body = @ \o body, !.writes = Tally(@)]

\* w.Header().Set(k, v) for each header of the fragment.
SetHeaders(o, hdr) == IF o.status = 0 THEN [o EXCEPT !.hdr = hdr] ELSE o

FlushSkipped(o) == o

Flush(o) == [o EXCEPT !.flushes = Tally(@)]

\* ------------------------------------------------ the client's arguments
\* Text is a sequence of characters.
Digits == <<"0", "1", "2", "3", "4", "5", "6", "7", "8", "9">>
IsDigit(c) == \E d \in 1 .. Len(Digits) : Digits[d] = c
DigitValue(c) == (CHOOSE d \in 1 .. Len(Digits) : Digits[d] = c) - 1
IsNumber(t) == t # <<>> /\ \A i \in 1 .. Len(t) : IsDigit(t[i])

\* The number a decimal numeral stands for.
RECURSIVE Atoi(_)
Atoi(t) ==
    IF t = <<>> THEN 0 ELSE 10 * Atoi(SubSeq(t, 1, Len(t) - 1)) + DigitValue(t[Len(t)])

MinPort == 1
MaxPort == 65535
ValidPort(t) == IsNumber(t) /\ Atoi(t) >= MinPort /\ Atoi(t) <= MaxPort

\* The place of the colon of host:port in t, 0 when t has not exactly one.
HostPortColon(t) ==
    IF Cardinality({i \in 1 .. Len(t) : t[i] = ":"}) = 1
    THEN CHOOSE i \in 1 .. Len(t) : t[i] = ":"
    ELSE 0

\* The result of a parse: the text made, or the error.
Parsed(text) == [err |-> FALSE, text |-> text]
ParseFailure == [err |-> TRUE, text |-> <<>>]

\* config.ParseDestination: a port alone gives http://localhost:<port>,
\* host:port gives http://host:port, anything else is an error.
ParseDestination(t) ==
    IF IsNumber(t)
    THEN IF ValidPort(t) THEN Parsed(<<"h", "t", "t", "p", ":", "/", "/", "l", "o", "c", "a", "l", "h", "o", "s", "t", ":">> \o t) ELSE ParseFailure
    ELSE LET c == HostPortColon(t) IN
         IF c > 1 /\ (\A i \in 1 .. (c - 1) : t[i] # "/") /\ ValidPort(SubSeq(t, c + 1, Len(t)))
         THEN Parsed(<<"h", "t", "t", "p", ":", "/", "/">> \o t)
         ELSE ParseFailure

\* The place where "://" begins in t, 0 when t has no scheme.
SchemeEnd(t) ==
    LET at == {i \in 1 .. (Len(t) - 2) : SubSeq(t, i, i + 2) = <<":", "/", "/">>} IN
    IF at = {} THEN 0 ELSE CHOOSE i \in at : \A j \in at : i <= j

\* config.ParseServerURL: no scheme and http give ws, https gives wss, any
\* other scheme is an error; the path /tunnel/connect is appended.
ParseServerURL(t) ==
    LET e == SchemeEnd(t)
        scheme == SubSeq(t, 1, e - 1)
        rest == SubSeq(t, e + 3, Len(t))
    IN  CASE e = 0 -> Parsed(<<"w", "s", ":", "/", "/">> \o t \o <<"/", "t", "u", "n", "n", "e", "l", "/", "c", "o", "n", "n", "e", "c", "t">>)
          [] e > 0 /\ scheme = <<"h", "t", "t", "p">> -> Parsed(<<"w", "s", ":", "/", "/">> \o rest \o <<"/", "t", "u", "n", "n", "e", "l", "/", "c", "o", "n", "n", "e", "c", "t">>)
          [] e > 0 /\ scheme = <<"h", "t", "t", "p", "s">> -> Parsed(<<"w", "s", "s", ":", "/", "/">> \o rest \o <<"/", "t", "u", "n", "n", "e", "l", "/", "c", "o", "n", "n", "e", "c", "t">>)
          [] OTHER -> ParseFailure

\* The table of TestParseDestination.
DestinationCases ==
    {[in |-> <<"8", "0", "8", "0">>,
      want |-> <<"h", "t", "t", "p", ":", "/", "/", "l", "o", "c", "a", "l", "h", "o", "s", "t", ":", "8", "0", "8", "0">>, wantErr |-> FALSE],
     [in |-> <<"8", "0">>,
      want |-> <<"h", "t", "t", "p", ":", "/", "/", "l", "o", "c", "a", "l", "h", "o", "s", "t", ":", "8", "0">>, wantErr |-> FALSE],
     [in |-> <<"6", "5", "5", "3", "5">>,
      want |-> <<"h", "t", "t", "p", ":", "/", "/", "l", "o", "c", "a", "l", "h", "o", "s", "t", ":", "6", "5", "5", "3", "5">>, wantErr |-> FALSE],
     [in |-> <<"f", "o", "o", ".", "d", "e", "v", ":", "8", "0">>,
      want |-> <<"h", "t", "t", "p", ":", "/", "/", "f", "o", "o", ".", "d", "e", "v", ":", "8", "0">>, wantErr |-> FALSE],
     [in |-> <<"l", "o", "c", "a", "l", "h", "o", "s", "t", ":", "3", "0", "0", "0">>,
      want |-> <<"h", "t", "t", "p", ":", "/", "/", "l", "o", "c", "a", "l", "h", "o", "s", "t", ":", "3", "0", "0", "0">>, wantErr |-> FALSE],
     [in |-> <<"1", "9", "2", ".", "1", "6", "8", ".", "1", ".", "1", "0", "0", ":", "8", "0", "8", "0">>,
      want |-> <<"h", "t", "t", "p", ":", "/", "/", "1", "9", "2", ".", "1", "6", "8", ".", "1", ".", "1", "0", "0", ":", "8", "0", "8", "0">>, wantErr |-> FALSE],
     [in |-> <<"0">>,
      want |-> <<>>, wantErr |-> TRUE],
     [in |-> <<"6", "5", "5", "3", "6">>,
      want |-> <<>>, wantErr |-> TRUE],
     [in |-> <<"a", "b", "c">>,
      want |-> <<>>, wantErr |-> TRUE],
     [in |-> <<"f", "o", "o", ".", "d", "e", "v">>,
      want |-> <<>>, wantErr |-> TRUE],
     [in |-> <<"f", "o", "o", ".", "d", "e", "v", ":", "9", "9", "9", "9", "9">>,
      want |-> <<>>, wantErr |-> TRUE]}

\* The table of TestParseServerURL.
ServerURLCases ==
    {[in |-> <<"l", "o", "c", "a", "l", "h", "o", "s", "t", ":", "8", "0", "8", "0">>,
      want |-> <<"w", "s", ":", "/", "/", "l", "o", "c", "a", "l", "h", "o", "s", "t", ":", "8", "0", "8", "0", "/", "t", "u", "n", "n", "e", "l", "/", "c", "o", "n", "n", "e", "c", "t">>, wantErr |-> FALSE],
     [in |-> <<"h", "t", "t", "p", ":", "/", "/", "l", "o", "c", "a", "l", "h", "o", "s", "t", ":", "8", "0", "8", "0">>,
      want |-> <<"w", "s", ":", "/", "/", "l", "o", "c", "a", "l", "h", "o", "s", "t", ":", "8", "0", "8", "0", "/", "t", "u", "n", "n", "e", "l", "/", "c", "o", "n", "n", "e", "c", "t">>, wantErr |-> FALSE],
     [in |-> <<"h", "t", "t", "p", "s", ":", "/", "/", "t", "u", "n", "n", "e", "l", ".", "e", "x", "a", "m", "p", "l", "e", ".", "c", "o", "m">>,
      want |-> <<"w", "s", "s", ":", "/", "/", "t", "u", "n", "n", "e", "l", ".", "e", "x", "a", "m", "p", "l", "e", ".", "c", "o", "m", "/", "t", "u", "n", "n", "e", "l", "/", "c", "o", "n", "n", "e", "c", "t">>, wantErr |-> FALSE],
     [in |-> <<"h", "t", "t", "p", "s", ":", "/", "/", "t", "u", "n", "n", "e", "l", ".", "e", "x", "a", "m", "p", "l", "e", ".", "c", "o", "m", ":", "4", "4", "3">>,
      want |-> <<"w", "s", "s", ":", "/", "/", "t", "u", "n", "n", "e", "l", ".", "e", "x", "a", "m", "p", "l", "e", ".", "c", "o", "m", ":", "4", "4", "3", "/", "t", "u", "n", "n", "e", "l", "/", "c", "o", "n", "n", "e", "c", "t">>, wantErr |-> FALSE],
     [in |-> <<"t", "u", "n", "n", "e", "l", ".", "e", "x", "a", "m", "p", "l", "e", ".", "c", "o", "m">>,
      want |-> <<"w", "s", ":", "/", "/", "t", "u", "n", "n", "e", "l", ".", "e", "x", "a", "m", "p", "l", "e", ".", "c", "o", "m", "/", "t", "u", "n", "n", "e", "l", "/", "c", "o", "n", "n", "e", "c", "t">>, wantErr |-> FALSE],
     [in |-> <<"f", "t", "p", ":", "/", "/", "e", "x", "a", "m", "p", "l", "e", ".", "c", "o", "m">>,
      want |-> <<>>, wantErr |-> TRUE],
     [in |-> <<"w", "s", ":", "/", "/", "e", "x", "a", "m", "p", "l", "e", ".", "c", "o", "m">>,
      want |-> <<>>, wantErr |-> TRUE],
     [in |-> <<"w", "s", "s", ":", "/", "/", "e", "x", "a", "m", "p", "l", "e", ".", "c", "o", "m">>,
      want |-> <<>>, wantErr |-> TRUE]}

\* Destination arguments the command is run with: those of the tests, the ends
\* of the port range and ports outside it.
DestinationInputs ==
    {c.in : c \in DestinationCases} \cup
    {<<"1">>,
     <<"f", "o", "o", ".", "d", "e", "v", ":", "1">>,
     <<"f", "o", "o", ".", "d", "e", "v", ":", "6", "5", "5", "3", "5">>,
     <<"f", "o", "o", ".", "d", "e", "v", ":", "0">>,
     <<"f", "o", "o", ".", "d", "e", "v", ":", "6", "5", "5", "3", "6">>,
     <<"f", "o", "o", ".", "d", "e", "v", ":", "a", "b", "c">>,
     <<"f", "o", "o", ".", "d", "e", "v", ":">>}

\* Values of --server: those of the tests and the short ones of the same schemes.
ServerInputs ==
    {c.in : c \in ServerURLCases} \cup
    {<<"f", "t", "p", ":", "/", "/", "x">>,
     <<"w", "s", ":", "/", "/", "x">>,
     <<"w", "s", "s", ":", "/", "/", "x">>,
     <<"h", "t", "t", "p", "s", ":", "/", "/", "x">>,
     <<"h", "t", "t", "p", ":", "/", "/", "x">>,
     <<"x">>}

\* The command before its arguments are parsed.
Command(dest, server) ==
    [pc |-> "Args", dest |-> dest, server |-> server,
     destErr |-> FALSE, destination |-> <<>>, serverErr |-> FALSE, serverWS |-> <<>>]

\* The command that has parsed its arguments and dials: what the tunnels of
\* the other specifications were started by.
CommandDialing ==
    [Command(<<"8", "0", "8", "0">>, <<"l", "o", "c", "a", "l", "h", "o", "s", "t", ":", "8", "0", "8", "0">>) EXCEPT
        !.pc = "Dial",
        !.destination = ParseDestination(<<"8", "0", "8", "0">>).text,
        !.serverWS = ParseServerURL(<<"l", "o", "c", "a", "l", "h", "o", "s", "t", ":", "8", "0", "8", "0">>).text]

\* ------------------------------------------------------------------- Init
Init ==
    /\ connMap = [k \in Keys |-> NoConn]
    /\ requestChannelMap = {}
    /\ requestCounts = [k \in {} |-> 0]
    /\ maxPerTunnel \in 1 .. MaxCeiling
    /\ bodyReads = MaxReads
    /\ cmd = CommandDialing
    /\ call = NoCall
    /\ chan = [r \in Requests |-> [buf |-> <<>>, closed |-> FALSE]]
    /\ conn = [s \in Sessions |-> "none"]
    /\ down = [s \in Sessions |-> <<>>]
    /\ up = [s \in Sessions |-> <<>>]
    /\ sess = [s \in Sessions |-> [pc |-> "Idle", key |-> "", msg |-> NoMessage, ch |-> NoChan, exit |-> "", reply |-> 0]]
    /\ hnd = [r \in Requests |-> [pc |-> "Idle", host |-> <<>>, sub |-> "", conn |-> NoConn, msg |-> NoMessage, err |-> "", body |-> NoBody]]
    /\ out = [r \in Requests |-> NoResponse]
    /\ cli = [s \in Sessions |-> "Idle"]
    /\ fwd = [r \in Requests |->
                [pc |-> "None", conn |-> NoConn, first |-> TRUE, reads |-> 0,
                 msg |-> NoMessage, last |-> "", exit |-> "", err |-> ""]]
    /\ sentReq = {}
    /\ droppedLive = {}
    /\ delivered = [r \in Requests |-> <<>>]
    /\ emitted = [r \in Requests |-> <<>>]

\* ------------------------------------------------ handleTunnelConnect (ingress)
\* The session's state in the order the handler passes through them: Upgrading
\* (before Upgrade returns), Registering (the store call and the registration
\* write), Serving (the read loop), Closed (returned).
SessionPhase(pc) ==
    CASE pc = "Idle" -> 1
      [] pc \in {"Registering", "RegWriting"} -> 2
      [] pc \in {"Serving", "Deliver"} -> 3
      [] OTHER -> 4

\* upgrader.Upgrade fails: HTTP 500, return.  The dialing client gets no transport.
TunnelUpgradeFails(s) ==
    /\ sess[s].pc = "Idle"
    /\ \E code \in UpgradeErrorReplies :
          sess' = [sess EXCEPT ![s].pc = "Closed", ![s].exit = "upgrade500", ![s].reply = code]
    /\ cli' = [cli EXCEPT ![s] = "Exited"]
    /\ UNCHANGED <<maxPerTunnel, bodyReads, cmd, call, connMap, requestChannelMap, requestCounts, chan, conn, down, up, hnd,
                   out, fwd, sentReq, droppedLive, delivered, emitted>>

\* Upgrade succeeds and RegisterConnection stores the wrapped connection under a
\* freshly generated key.  On its error: http.Error (503 for ErrMaxTunnelsReached,
\* else 500) on the hijacked connection, return and the deferred con.Close.
TunnelConnect(s) ==
    /\ sess[s].pc = "Idle"
    /\ IF RegisterConnectionError = "nil"
       THEN /\ \E key \in generateSubdomainKey :
                  /\ connMap' = RegisterConnection(s, key)
                  /\ sess' = [sess EXCEPT ![s].pc = "Registering", ![s].key = key]
            /\ conn' = [conn EXCEPT ![s] = "open"]
            /\ cli' = [cli EXCEPT ![s] = "WaitReg"]
       ELSE /\ sess' = [sess EXCEPT
                          ![s].pc = "Closed",
                          ![s].exit = IF RegisterConnectionError = "ErrMaxTunnelsReached"
                                      THEN "maxTunnels503" ELSE "register500",
                          ![s].reply = TunnelHttpError(TRUE,
                                          IF RegisterConnectionError = "ErrMaxTunnelsReached"
                                          THEN StatusServiceUnavailable
                                          ELSE StatusInternalServerError)]
            /\ conn' = [conn EXCEPT ![s] = "closed"]
            /\ cli' = [cli EXCEPT ![s] = "Exited"]
            /\ UNCHANGED connMap
    /\ UNCHANGED <<maxPerTunnel, bodyReads, cmd, call, requestChannelMap, requestCounts, chan, down, up, hnd,
                   out, fwd, sentReq, droppedLive, delivered, emitted>>

\* con.WriteJSON(&RegisterTunnelMessage{...}) on the raw connection: the write starts.
SendRegistrationBegin(s) ==
    /\ sess[s].pc = "Registering"
    /\ sess' = [sess EXCEPT ![s].pc = "RegWriting"]
    /\ UNCHANGED <<maxPerTunnel, bodyReads, cmd, call, connMap, requestChannelMap, requestCounts, chan, conn, down, up, hnd,
                   out, cli, fwd, sentReq, droppedLive, delivered, emitted>>

\* The registration write ends: on the wire and on to the read loop, or, the
\* connection being gone, HTTP 500, return and the deferred con.Close.
SendRegistrationEnd(s) ==
    /\ sess[s].pc = "RegWriting"
    /\ IF conn[s] = "open"
       THEN /\ \E m \in Written(RegisterTunnelMessage, IngressSafeWriters(s)) :
                   down' = [down EXCEPT ![s] = Append(@, m)]
            /\ sess' = [sess EXCEPT ![s].pc = "Serving"]
            /\ UNCHANGED conn
       ELSE /\ sess' = [sess EXCEPT ![s].pc = "Closed", ![s].exit = "sendreg500",
                                    ![s].reply = TunnelHttpError(TRUE, StatusInternalServerError)]
            /\ conn' = [conn EXCEPT ![s] = "closed"]
            /\ UNCHANGED down
    /\ UNCHANGED <<maxPerTunnel, bodyReads, cmd, call, connMap, requestChannelMap, requestCounts, chan, up, hnd,
                   out, cli, fwd, sentReq, droppedLive, delivered, emitted>>

\* One turn of the read loop: con.ReadJSON(&msg), then GetRequestChannel(msg.Id).
\* A fragment whose id has no channel is dropped.
SessionRead(s) ==
    /\ sess[s].pc = "Serving"
    /\ up[s] # <<>>
    /\ LET msg == Head(up[s])
           ch == GetRequestChannel(msg.id)
       IN  /\ up' = [up EXCEPT ![s] = Tail(@)]
           /\ IF ch # NoChan
              THEN /\ sess' = [sess EXCEPT ![s].pc = "Deliver", ![s].msg = msg, ![s].ch = ch]
                   /\ UNCHANGED droppedLive
              ELSE /\ droppedLive' = IF hnd[msg.id].pc # "Done"
                                     THEN droppedLive \cup {msg.id} ELSE droppedLive
                   /\ UNCHANGED sess
    /\ UNCHANGED <<maxPerTunnel, bodyReads, cmd, call, connMap, requestChannelMap, requestCounts, chan, conn, down, hnd,
                   out, cli, fwd, sentReq, delivered, emitted>>

\* con.ReadJSON fails (the peer closed the transport): RemoveConnection, return,
\* and the deferred con.Close.
SessionReadFails(s) ==
    /\ sess[s].pc = "Serving"
    /\ conn[s] = "closed"
    /\ connMap' = RemoveConnection(sess[s].key)
    /\ sess' = [sess EXCEPT ![s].pc = "Closed", ![s].exit = "readfail"]
    /\ UNCHANGED <<maxPerTunnel, bodyReads, cmd, call, requestChannelMap, requestCounts, chan, conn, down, up, hnd,
                   out, cli, fwd, sentReq, droppedLive, delivered, emitted>>

\* ch <- msg.  It blocks while the buffer is full; on a closed channel it panics:
\* the handler unwinds, the deferred con.Close runs, the store entry stays.
SessionDeliver(s) ==
    /\ sess[s].pc = "Deliver"
    /\ LET ch == sess[s].ch IN
       IF chan[ch].closed
       THEN /\ sess' = [sess EXCEPT ![s].pc = "Closed", ![s].exit = "panic",
                                    ![s].msg = NoMessage, ![s].ch = NoChan]
            /\ conn' = [conn EXCEPT ![s] = "closed"]
            /\ UNCHANGED <<chan, delivered>>
       ELSE /\ Len(chan[ch].buf) < MailboxCap
            /\ chan' = [chan EXCEPT ![ch].buf = Append(@, sess[s].msg)]
            /\ delivered' = [delivered EXCEPT ![ch] = Append(@, sess[s].msg)]
            /\ sess' = [sess EXCEPT ![s].pc = "Serving", ![s].msg = NoMessage, ![s].ch = NoChan]
            /\ UNCHANGED conn
    /\ UNCHANGED <<maxPerTunnel, bodyReads, cmd, call, connMap, requestChannelMap, requestCounts, down, up, hnd,
                   out, cli, fwd, sentReq, droppedLive, emitted>>

\* ---------------------------------------------------- handleRequest (ingress)
RequestRejectionStoreFirst(subdomain, c, bodyRead) ==
    CASE c = NoConn -> StatusNotFound
      [] subdomain = "" -> StatusBadRequest
      [] bodyRead = "tooLarge" -> StatusRequestEntityTooLarge
      [] bodyRead = "readErr" -> StatusInternalServerError
      [] OTHER -> 0

\* The early returns of handleRequest, in the order of the code: the status the
\* request is refused with, 0 when it goes on.  c is consulted only when the
\* subdomain was extracted.
RequestRejection(subdomain, c, bodyRead) ==
    CASE subdomain = "" -> StatusBadRequest
      [] c = NoConn -> StatusNotFound
      [] bodyRead = "tooLarge" -> StatusRequestEntityTooLarge
      [] bodyRead = "readErr" -> StatusInternalServerError
      [] OTHER -> 0

\* What writeProxiedResponse returns when the receive finds the mailbox closed:
\* an error before the first fragment, nil after it.
WaitClosedSilent(recvd) == "nil"

WaitClosedError(recvd) == IF recvd = 0 THEN "TunnelNotRespondingError" ELSE "nil"

\* What it returns when the timer of the current wait fires.
WaitTimeoutSilent(recvd) == "nil"

WaitTimeoutLoud(recvd) == "TimeoutError"

WaitTimeoutError(recvd) == IF recvd = 0 THEN "TimeoutError" ELSE "nil"

\* SendableHTTPError.StatusCode() of the errors writeProxiedResponse returns;
\* 0 for an error that is none.
SendableStatusCode(err) ==
    CASE err = "TunnelNotRespondingError" -> StatusBadGateway
      [] err = "TimeoutError" -> StatusGatewayTimeout
      [] OTHER -> 0

\* handleRequest after writeProxiedResponse: a SendableHTTPError becomes http.Error.
ReplyError(o, err) ==
    IF SendableStatusCode(err) # 0 THEN HttpError(o, SendableStatusCode(err)) ELSE o

MaxBytesReadAllAtLimit(size, fails) ==
    CASE fails -> "readErr"
      [] size >= MaxBodySize -> "tooLarge"
      [] OTHER -> "ok"

\* io.ReadAll(http.MaxBytesReader(w, r.Body, MaxBodySize)) on a body of `size`
\* bytes: the connection's read error, a MaxBytesError when more than
\* MaxBodySize bytes come, else the bytes.
MaxBytesReadAll(size, fails) ==
    CASE fails -> "readErr"
      [] size > MaxBodySize -> "tooLarge"
      [] OTHER -> "ok"

\* handleRequest up to the request message: subdomain, GetConnection, body read.
\* The body is read only when the tunnel was found.
HandleRequestStart(r) ==
    /\ hnd[r].pc = "Idle"
    /\ \E host \in Hosts, size \in BodySizes, fails \in BOOLEAN :
         LET subdomain == ExtractAssignedSubdomain(host)
             c == GetConnection(subdomain)
             failed == RequestRejection(subdomain, c, MaxBytesReadAll(size, fails))
             body == IF subdomain # "" /\ c # NoConn
                     THEN [size |-> size, fails |-> fails] ELSE NoBody
         IN  IF failed # 0
             THEN /\ out' = [out EXCEPT ![r] = HttpError(@, failed)]
                  /\ hnd' = [hnd EXCEPT ![r].pc = "Done", ![r].host = host, ![r].body = body]
             ELSE /\ hnd' = [hnd EXCEPT ![r].pc = "Accepted", ![r].host = host,
                                       ![r].sub = subdomain, ![r].conn = c, ![r].body = body]
                  /\ UNCHANGED out
    /\ UNCHANGED <<maxPerTunnel, bodyReads, cmd, call, connMap, requestChannelMap, requestCounts, chan, conn, down, up, sess,
                   cli, fwd, sentReq, droppedLive, delivered, emitted>>

\* conn.WriteJSON(message) on the SafeWebSocketConn: the lock is taken, the write starts.
HandlerWriteBegin(r) ==
    /\ hnd[r].pc = "Accepted"
    /\ IngressMuFree(hnd[r].conn)
    /\ hnd' = [hnd EXCEPT ![r].pc = "Writing"]
    /\ UNCHANGED <<maxPerTunnel, bodyReads, cmd, call, connMap, requestChannelMap, requestCounts, chan, conn, down, up, sess,
                   out, cli, fwd, sentReq, droppedLive, delivered, emitted>>

\* The write ends and the lock is released: the request is on the wire, or the
\* write failed (HTTP 500, return).
HandlerWriteEnd(r) ==
    /\ hnd[r].pc = "Writing"
    /\ LET s == hnd[r].conn IN
       IF conn[s] = "open"
       THEN /\ \E m \in Written(RequestMessage(r), IngressRawWriters(s)) :
                   down' = [down EXCEPT ![s] = Append(@, m)]
            /\ sentReq' = sentReq \cup {r}
            /\ hnd' = [hnd EXCEPT ![r].pc = "Sent"]
            /\ UNCHANGED out
       ELSE /\ out' = [out EXCEPT ![r] = HttpError(@, StatusInternalServerError)]
            /\ hnd' = [hnd EXCEPT ![r].pc = "Done"]
            /\ UNCHANGED <<down, sentReq>>
    /\ UNCHANGED <<maxPerTunnel, bodyReads, cmd, call, connMap, requestChannelMap, requestCounts, chan, conn, up, sess,
                   cli, fwd, droppedLive, delivered, emitted>>

\* requestManager.RegisterRequest(requestId, subdomain), after the write.
HandlerRegister(r) ==
    /\ hnd[r].pc = "Sent"
    /\ IF RegisterRequestFails(hnd[r].sub)
       THEN /\ out' = [out EXCEPT ![r] = HttpError(@, StatusServiceUnavailable)]
            /\ hnd' = [hnd EXCEPT ![r].pc = "Done"]
            /\ UNCHANGED <<chan, requestChannelMap, requestCounts>>
       ELSE /\ RegisterRequest(r, hnd[r].sub)
            /\ hnd' = [hnd EXCEPT ![r].pc = "Wait"]
            /\ UNCHANGED out
    /\ UNCHANGED <<maxPerTunnel, bodyReads, cmd, call, connMap, conn, down, up, sess, cli, fwd, sentReq, droppedLive,
                   delivered, emitted>>

\* handleRequest returns: the deferred RemoveRequest runs.
HandlerReturn(r, err) ==
    /\ hnd' = [hnd EXCEPT ![r].pc = "Done", ![r].msg = NoMessage, ![r].err = err]
    /\ RemoveRequest(r, hnd[r].sub)

\* writeProxiedResponse, a select's receive from the mailbox.  A closed and empty
\* mailbox gives ok = false: TunnelNotRespondingError before the first fragment,
\* a silent end after it.
HandlerReceive(r) ==
    /\ hnd[r].pc = "Wait"
    /\ IF chan[r].buf # <<>>
       THEN /\ chan' = [chan EXCEPT ![r].buf = Tail(@)]
            /\ hnd' = [hnd EXCEPT ![r].pc = "Write", ![r].msg = Head(chan[r].buf)]
            /\ out' = [out EXCEPT ![r].recvd = Tally(@)]
            /\ UNCHANGED <<requestChannelMap, requestCounts>>
       ELSE /\ chan[r].closed
            /\ out' = [out EXCEPT ![r] = ReplyError(@, WaitClosedError(@.recvd))]
            /\ HandlerReturn(r, WaitClosedError(out[r].recvd))
    /\ UNCHANGED <<maxPerTunnel, bodyReads, cmd, call, connMap, conn, down, up, sess, cli, fwd, sentReq, droppedLive,
                   delivered, emitted>>

\* writeProxiedResponse, a select's timer: 504 while waiting for the first
\* fragment, a silent end while waiting for a later one.
HandlerTimeout(r) ==
    /\ hnd[r].pc = "Wait"
    /\ out' = [out EXCEPT ![r] = ReplyError(@, WaitTimeoutError(@.recvd))]
    /\ HandlerReturn(r, WaitTimeoutError(out[r].recvd))
    /\ UNCHANGED <<maxPerTunnel, bodyReads, cmd, call, connMap, conn, down, up, sess, cli, fwd, sentReq, droppedLive,
                   delivered, emitted>>

\* The fragment in hand goes to the public response: headers and status with the
\* first one, then the body.  WriteHeader panics on an invalid status (a first
\* fragment that carries none); the recovery layer answers 500.
HandlerWrite(r) ==
    /\ hnd[r].pc = "Write"
    /\ IF out[r].recvd = 1 /\ hnd[r].msg.status = 0
       THEN /\ out' = [out EXCEPT ![r] = HttpError(SetHeaders(@, hnd[r].msg.hdr),
                                                    StatusInternalServerError)]
            /\ HandlerReturn(r, "panic")
       ELSE /\ out' = [out EXCEPT ![r] =
                          Write(IF @.recvd = 1
                                THEN WriteHeader(SetHeaders(@, hnd[r].msg.hdr), hnd[r].msg.status)
                                ELSE @,
                                hnd[r].msg.body)]
            /\ hnd' = [hnd EXCEPT ![r].pc = "Flush"]
            /\ UNCHANGED <<chan, requestChannelMap, requestCounts>>
    /\ UNCHANGED <<maxPerTunnel, bodyReads, cmd, call, connMap, conn, down, up, sess, cli, fwd, sentReq, droppedLive,
                   delivered, emitted>>

\* w.Write fails (the public caller is gone): logged, return nil.
HandlerWriteFails(r) ==
    /\ hnd[r].pc = "Write"
    /\ ~(out[r].recvd = 1 /\ hnd[r].msg.status = 0)
    /\ out' = [out EXCEPT ![r] = IF @.recvd = 1
                                  THEN WriteHeader(SetHeaders(@, hnd[r].msg.hdr), hnd[r].msg.status)
                                  ELSE @]
    /\ HandlerReturn(r, "nil")
    /\ UNCHANGED <<maxPerTunnel, bodyReads, cmd, call, connMap, conn, down, up, sess, cli, fwd, sentReq, droppedLive,
                   delivered, emitted>>

\* flusher.Flush(), then the loop test: return after a done fragment, else wait again.
HandlerFlush(r) ==
    /\ hnd[r].pc = "Flush"
    /\ out' = [out EXCEPT ![r] = Flush(@)]
    /\ IF hnd[r].msg.done
       THEN HandlerReturn(r, "nil")
       ELSE /\ hnd' = [hnd EXCEPT ![r].pc = "Wait", ![r].msg = NoMessage]
            /\ UNCHANGED <<chan, requestChannelMap, requestCounts>>
    /\ UNCHANGED <<maxPerTunnel, bodyReads, cmd, call, connMap, conn, down, up, sess, cli, fwd, sentReq, droppedLive,
                   delivered, emitted>>

\* ------------------------------------------------------------ client process
\* Register: the first message read is taken as the RegisterTunnelMessage.
\* Broken framing fails the read: the command returns and its deferred Close runs.
ClientRegister(s) ==
    /\ cli[s] = "WaitReg"
    /\ down[s] # <<>>
    /\ down' = [down EXCEPT ![s] = Tail(@)]
    /\ IF Head(down[s]).type = "garbled"
       THEN /\ cli' = [cli EXCEPT ![s] = "Exited"]
            /\ conn' = [conn EXCEPT ![s] = "closed"]
       ELSE /\ cli' = [cli EXCEPT ![s] = "Accepting"]
            /\ UNCHANGED conn
    /\ UNCHANGED <<maxPerTunnel, bodyReads, cmd, call, connMap, requestChannelMap, requestCounts, chan, up, sess, hnd,
                   out, fwd, sentReq, droppedLive, delivered, emitted>>

\* AcceptRequests, one turn: ReadJSON(&requestMsg), then go sendResponse(...).
\* A message that is no request (a registration read late) starts a worker for a
\* request with no id, whose fragments match no mailbox: it is left out.
ClientAccept(s) ==
    /\ cli[s] = "Accepting"
    /\ down[s] # <<>>
    /\ down' = [down EXCEPT ![s] = Tail(@)]
    /\ LET m == Head(down[s]) IN
       CASE m.type = "garbled" ->
              /\ cli' = [cli EXCEPT ![s] = "Exited"]
              /\ conn' = [conn EXCEPT ![s] = "closed"]
              /\ UNCHANGED fwd
         [] m.type = "request" ->
              /\ fwd' = [fwd EXCEPT ![m.id].pc = "Dispatch", ![m.id].conn = s]
              /\ UNCHANGED <<cli, conn>>
         [] OTHER -> UNCHANGED <<cli, conn, fwd>>
    /\ UNCHANGED <<maxPerTunnel, bodyReads, cmd, call, connMap, requestChannelMap, requestCounts, chan, up, sess, hnd,
                   out, sentReq, droppedLive, delivered, emitted>>

\* The transport was closed under the client (by the ingress): its read fails.
ClientReadFails(s) ==
    /\ cli[s] \in {"WaitReg", "Accepting"}
    /\ conn[s] = "closed"
    /\ cli' = [cli EXCEPT ![s] = "Exited"]
    /\ UNCHANGED <<maxPerTunnel, bodyReads, cmd, call, connMap, requestChannelMap, requestCounts, chan, conn, down, up, sess,
                   hnd, out, fwd, sentReq, droppedLive, delivered, emitted>>

\* Interrupt signal: c.Close(), the read loop returns; the workers are abandoned.
ClientSignal(s) ==
    /\ cli[s] \in {"WaitReg", "Accepting"}
    /\ conn[s] = "open"
    /\ conn' = [conn EXCEPT ![s] = "closed"]
    /\ cli' = [cli EXCEPT ![s] = "Exited"]
    /\ UNCHANGED <<maxPerTunnel, bodyReads, cmd, call, connMap, requestChannelMap, requestCounts, chan, down, up, sess,
                   hnd, out, fwd, sentReq, droppedLive, delivered, emitted>>

\* ------------------------------------------------- sendResponse (client worker)
ErrorBody == <<0>>

FragmentDoneAlways(err) == TRUE

\* err == io.EOF: the Done flag of a fragment.
FragmentDone(err) == err = "EOF"

\* firstChunk || byteCount > 0: whether a read's result is sent.
FragmentSent(firstChunk, byteCount) == firstChunk \/ byteCount > 0

ReadErrorFragmentsAlways(r, firstChunk) ==
    <<Message("response", r, StatusBadGateway, FALSE, ErrorBody, TRUE)>>

\* What the worker sends on a read error that is not io.EOF: the error fragment
\* before the first chunk, nothing after it.
ReadErrorFragments(r, firstChunk) ==
    IF firstChunk
    THEN <<Message("response", r, StatusBadGateway, FALSE, ErrorBody, TRUE)>>
    ELSE <<>>

\* The worker hands msg to WriteJSON; `last` names the return that follows the
\* write whatever its result ("" inside the read loop), err is what the read
\* before it reported ("" when there was none).
FwdEmit(r, msg, last, err) ==
    /\ fwd' = [fwd EXCEPT ![r].pc = "Write", ![r].msg = msg, ![r].last = last,
                          ![r].err = err,
                          ![r].first = IF last = "" THEN FALSE ELSE @,
                          ![r].reads = IF last = "" /\ ~msg.done THEN @ + 1 ELSE @]
    /\ emitted' = [emitted EXCEPT ![r] = Append(@, msg)]

\* http.NewRequest and http.DefaultClient.Do.
FwdDispatch(r) ==
    /\ fwd[r].pc = "Dispatch"
    /\ \E res \in {"ok", "newRequestErr", "doErr"} :
         CASE res = "newRequestErr" ->
                FwdEmit(r, Message("response", r, StatusInternalServerError, FALSE,
                                   ErrorBody, FALSE), "newRequestFail", "")
           [] res = "doErr" ->
                FwdEmit(r, Message("response", r, StatusBadGateway, FALSE,
                                   ErrorBody, FALSE), "dispatchFail", "")
           [] OTHER ->
                /\ fwd' = [fwd EXCEPT ![r].pc = "Read"]
                /\ UNCHANGED emitted
    /\ UNCHANGED <<maxPerTunnel, bodyReads, cmd, call, connMap, requestChannelMap, requestCounts, chan, conn, down, up, sess,
                   hnd, out, cli, sentReq, droppedLive, delivered>>

\* What res.Body.Read may return: a byte count (0, or some) and nil, io.EOF or
\* another error.
ReadResults == [n : {0, 1}, err : {"nil", "EOF", "err"}]

\* One turn of the read loop up to its WriteJSON.
FwdRead(r) ==
    /\ fwd[r].pc = "Read"
    /\ \E res \in ReadResults :
         /\ res.err = "nil" => fwd[r].reads < bodyReads
         /\ IF res.err = "err"
            THEN IF ReadErrorFragments(r, fwd[r].first) # <<>>
                 THEN FwdEmit(r, ReadErrorFragments(r, fwd[r].first)[1], "readErr", res.err)
                 ELSE /\ fwd' = [fwd EXCEPT ![r].pc = "Done", ![r].exit = "readErr", ![r].reads = 0]
                      /\ UNCHANGED emitted
            ELSE IF FragmentSent(fwd[r].first, res.n)
                 THEN FwdEmit(r, Message("response", r,
                                         IF fwd[r].first THEN OriginStatus ELSE 0,
                                         fwd[r].first,
                                         IF res.n > 0 THEN <<fwd[r].reads + 1>> ELSE <<>>,
                                         FragmentDone(res.err)), "", res.err)
                 ELSE /\ fwd' = IF res.err = "EOF"
                                THEN [fwd EXCEPT ![r].pc = "Done", ![r].exit = "eof", ![r].reads = 0]
                                ELSE [fwd EXCEPT ![r].reads = @ + 1]
                      /\ UNCHANGED emitted
    /\ UNCHANGED <<maxPerTunnel, bodyReads, cmd, call, connMap, requestChannelMap, requestCounts, chan, conn, down, up, sess,
                   hnd, out, cli, sentReq, droppedLive, delivered>>

\* SafeWebSocketConn.WriteJSON on the client: the lock is taken, the write starts.
FwdWriteBegin(r) ==
    /\ fwd[r].pc = "Write"
    /\ ClientMuFree(fwd[r].conn)
    /\ fwd' = [fwd EXCEPT ![r].pc = "Writing"]
    /\ UNCHANGED <<maxPerTunnel, bodyReads, cmd, call, connMap, requestChannelMap, requestCounts, chan, conn, down, up, sess,
                   hnd, out, cli, sentReq, droppedLive, delivered, emitted>>

\* The write ends, the lock is released.  After the write: return on an error
\* path, break on a write error or after a done fragment, else read again.
FwdWriteEnd(r) ==
    /\ fwd[r].pc = "Writing"
    /\ LET s == fwd[r].conn
           ok == conn[s] = "open"
           exit == CASE fwd[r].last # "" -> fwd[r].last
                     [] ~ok -> "writeErr"
                     [] fwd[r].msg.done -> "eof"
                     [] OTHER -> ""
       IN  /\ up' = IF ok THEN [up EXCEPT ![s] = Append(@, fwd[r].msg)] ELSE up
           /\ fwd' = [fwd EXCEPT ![r].pc = IF exit = "" THEN "Read" ELSE "Done",
                                 ![r].exit = exit, ![r].msg = NoMessage, ![r].err = "",
                                 ![r].reads = IF exit = "" THEN @ ELSE 0,
                                 ![r].first = IF exit = "" THEN @ ELSE TRUE]
    /\ UNCHANGED <<maxPerTunnel, bodyReads, cmd, call, connMap, requestChannelMap, requestCounts, chan, conn, down, sess,
                   hnd, out, cli, sentReq, droppedLive, delivered, emitted>>

\* ------------------------------------------------------------------- Next
Next ==
    \/ \E s \in Sessions :
         \/ TunnelUpgradeFails(s)
         \/ TunnelConnect(s)
         \/ SendRegistrationBegin(s)
         \/ SendRegistrationEnd(s)
         \/ SessionRead(s)
         \/ SessionReadFails(s)
         \/ SessionDeliver(s)
         \/ ClientRegister(s)
         \/ ClientAccept(s)
         \/ ClientReadFails(s)
         \/ ClientSignal(s)
    \/ \E r \in Requests :
         \/ HandleRequestStart(r)
         \/ HandlerWriteBegin(r)
         \/ HandlerWriteEnd(r)
         \/ HandlerRegister(r)
         \/ HandlerReceive(r)
         \/ HandlerTimeout(r)
         \/ HandlerWrite(r)
         \/ HandlerWriteFails(r)
         \/ HandlerFlush(r)
         \/ FwdDispatch(r)
         \/ FwdRead(r)
         \/ FwdWriteBegin(r)
         \/ FwdWriteEnd(r)

Spec == Init /\ [][Next]_vars

\* ------------------------------------------------ the handlers keep running
\* A step of handleRequest after it took the request up.
HandlerStep(r) ==
    \/ HandlerWriteBegin(r)
    \/ HandlerWriteEnd(r)
    \/ HandlerRegister(r)
    \/ HandlerReceive(r)
    \/ HandlerTimeout(r)
    \/ HandlerWrite(r)
    \/ HandlerWriteFails(r)
    \/ HandlerFlush(r)

\* Each handler goroutine is scheduled while it can run, and the 30-second
\* timer of a wait fires; nothing is assumed of the client or of the sessions.
\* The ceiling is the one that admits every request followed.
InitFair == Init /\ maxPerTunnel = MaxCeiling

SpecFair == InitFair /\ [][Next]_vars /\ \A r \in Requests : WF_vars(HandlerStep(r))

\* --------------------------------------------- the Connection Store on its own
\* Several tunnel connections and their clients against one Connection Store;
\* no public request arrives.
InitStore ==
    /\ connMap = [k \in StoreKeys |-> NoConn]
    /\ requestChannelMap = {}
    /\ requestCounts = [k \in {} |-> 0]
    /\ maxPerTunnel = MaxCeiling
    /\ bodyReads = MaxReads
    /\ cmd = CommandDialing
    /\ call = NoCall
    /\ chan = [r \in Requests |-> [buf |-> <<>>, closed |-> FALSE]]
    /\ conn = [s \in Tunnels |-> "none"]
    /\ down = [s \in Tunnels |-> <<>>]
    /\ up = [s \in Tunnels |-> <<>>]
    /\ sess = [s \in Tunnels |-> [pc |-> "Idle", key |-> "", msg |-> NoMessage, ch |-> NoChan, exit |-> "", reply |-> 0]]
    /\ hnd = [r \in Requests |-> [pc |-> "Idle", host |-> <<>>, sub |-> "", conn |-> NoConn, msg |-> NoMessage, err |-> "", body |-> NoBody]]
    /\ out = [r \in Requests |-> NoResponse]
    /\ cli = [s \in Tunnels |-> "Idle"]
    /\ fwd = [r \in Requests |->
                [pc |-> "None", conn |-> NoConn, first |-> TRUE, reads |-> 0,
                 msg |-> NoMessage, last |-> "", exit |-> "", err |-> ""]]
    /\ sentReq = {}
    /\ droppedLive = {}
    /\ delivered = [r \in Requests |-> <<>>]
    /\ emitted = [r \in Requests |-> <<>>]

NextStore ==
    \E s \in Tunnels :
        \/ TunnelUpgradeFails(s)
        \/ TunnelConnect(s)
        \/ SendRegistrationBegin(s)
        \/ SendRegistrationEnd(s)
        \/ SessionReadFails(s)
        \/ ClientRegister(s)
        \/ ClientSignal(s)

SpecStore == InitStore /\ [][NextStore]_vars

\* --------------------------------------- the Request Manager on its own
\* RegisterRequest called with a new id (ids are uuid.New(): never one that was
\* used) and any subdomain: an error at the ceiling, else the mailbox.
ManagerRegister(r, k) ==
    /\ r \notin requestChannelMap
    /\ ~chan[r].closed
    /\ call' = ManagerCall("register", r, k, FALSE)
    /\ IF RegisterRequestFails(k)
       THEN UNCHANGED <<chan, requestChannelMap, requestCounts>>
       ELSE RegisterRequest(r, k)
    /\ UNCHANGED <<maxPerTunnel, bodyReads, cmd, connMap, conn, down, up, sess, hnd, out, cli, fwd,
                   sentReq, droppedLive, delivered, emitted>>

\* RemoveRequest called with any id and any subdomain.
ManagerRemove(r, k) ==
    /\ call' = ManagerCall("remove", r, k, r \in requestChannelMap)
    /\ RemoveRequest(r, k)
    /\ UNCHANGED <<maxPerTunnel, bodyReads, cmd, connMap, conn, down, up, sess, hnd, out, cli, fwd,
                   sentReq, droppedLive, delivered, emitted>>

\* NewInMemoryRequestManager(maxPerTunnel) with a ceiling of 1 .. MaxCeiling.
InitManager ==
    /\ connMap = [k \in StoreKeys |-> NoConn]
    /\ requestChannelMap = {}
    /\ requestCounts = [k \in {} |-> 0]
    /\ maxPerTunnel \in 1 .. MaxCeiling
    /\ bodyReads = MaxReads
    /\ cmd = CommandDialing
    /\ call = NoCall
    /\ chan = [r \in Requests |-> [buf |-> <<>>, closed |-> FALSE]]
    /\ conn = [s \in Tunnels |-> "none"]
    /\ down = [s \in Tunnels |-> <<>>]
    /\ up = [s \in Tunnels |-> <<>>]
    /\ sess = [s \in Tunnels |-> [pc |-> "Idle", key |-> "", msg |-> NoMessage, ch |-> NoChan, exit |-> "", reply |-> 0]]
    /\ hnd = [r \in Requests |-> [pc |-> "Idle", host |-> <<>>, sub |-> "", conn |-> NoConn, msg |-> NoMessage, err |-> "", body |-> NoBody]]
    /\ out = [r \in Requests |-> NoResponse]
    /\ cli = [s \in Tunnels |-> "Idle"]
    /\ fwd = [r \in Requests |->
                [pc |-> "None", conn |-> NoConn, first |-> TRUE, reads |-> 0,
                 msg |-> NoMessage, last |-> "", exit |-> "", err |-> ""]]
    /\ sentReq = {}
    /\ droppedLive = {}
    /\ delivered = [r \in Requests |-> <<>>]
    /\ emitted = [r \in Requests |-> <<>>]

NextManager ==
    \E r \in Requests, k \in StoreKeys :
        \/ ManagerRegister(r, k)
        \/ ManagerRemove(r, k)

SpecManager == InitManager /\ [][NextManager]_vars

\* ------------------------------------------- a peer that sends foreign ids
\* The peer of tunnel s sends a response message that carries the id of request
\* r, whichever tunnel r went to: the ingress reads what the peer wrote.  At most
\* MaxFragments such messages are followed at a time.
PeerSendsResponse(s, r) ==
    /\ conn[s] = "open"
    /\ sess[s].pc \in {"Serving", "Deliver"}
    /\ Cardinality({p \in Requests \X (1 .. MaxFragments) : p[2] <= Len(delivered[p[1]])})
          + Cardinality({p \in Tunnels \X (1 .. MaxFragments) : p[2] <= Len(up[p[1]])})
          + Cardinality({t \in Tunnels : sess[t].pc = "Deliver"}) < MaxFragments
    /\ \E done \in BOOLEAN :
         up' = [up EXCEPT ![s] = Append(@, Message("response", r, OriginStatus, TRUE, <<>>, done))]
    /\ UNCHANGED <<maxPerTunnel, bodyReads, cmd, call, connMap, requestChannelMap, requestCounts, chan, conn, down,
                   sess, hnd, out, cli, fwd, sentReq, droppedLive, delivered, emitted>>

\* Two tunnels are live under different keys; request 1 was written to tunnel 1
\* and its mailbox is registered.
InitInject ==
    /\ \E f \in [Tunnels -> StoreKeys] :
         /\ \A s, t \in Tunnels : s # t => f[s] # f[t]
         /\ connMap = [k \in StoreKeys |-> IF \E s \in Tunnels : f[s] = k
                                           THEN CHOOSE s \in Tunnels : f[s] = k ELSE NoConn]
         /\ requestCounts = SetCount([k \in {} |-> 0], f[1], 1)
         /\ sess = [s \in Tunnels |->
                      [pc |-> "Serving", key |-> f[s], msg |-> NoMessage, ch |-> NoChan,
                       exit |-> "", reply |-> 0]]
         /\ hnd = [r \in Requests |->
                      IF r = 1
                      THEN [pc |-> "Wait", host |-> <<f[1], "example", "com">>, sub |-> f[1],
                            conn |-> 1, msg |-> NoMessage, err |-> "",
                            body |-> [size |-> MaxBodySize, fails |-> FALSE]]
                      ELSE [pc |-> "Idle", host |-> <<>>, sub |-> "", conn |-> NoConn,
                            msg |-> NoMessage, err |-> "", body |-> NoBody]]
    /\ requestChannelMap = {1}
    /\ maxPerTunnel = MaxCeiling
    /\ bodyReads = MaxReads
    /\ cmd = CommandDialing
    /\ call = NoCall
    /\ chan = [r \in Requests |-> [buf |-> <<>>, closed |-> FALSE]]
    /\ conn = [s \in Tunnels |-> "open"]
    /\ down = [s \in Tunnels |-> <<>>]
    /\ up = [s \in Tunnels |-> <<>>]
    /\ out = [r \in Requests |-> NoResponse]
    /\ cli = [s \in Tunnels |-> "Accepting"]
    /\ fwd = [r \in Requests |->
                [pc |-> "None", conn |-> NoConn, first |-> TRUE, reads |-> 0,
                 msg |-> NoMessage, last |-> "", exit |-> "", err |-> ""]]
    /\ sentReq = {1}
    /\ droppedLive = {}
    /\ delivered = [r \in Requests |-> <<>>]
    /\ emitted = [r \in Requests |-> <<>>]

NextInject ==
    \/ \E s \in Tunnels :
         \/ SessionRead(s)
         \/ SessionDeliver(s)
         \/ \E r \in Requests : PeerSendsResponse(s, r)
    \/ \E r \in Requests :
         \/ HandlerReceive(r)
         \/ HandlerTimeout(r)
         \/ HandlerWrite(r)
         \/ HandlerWriteFails(r)
         \/ HandlerFlush(r)

SpecInject == InitInject /\ [][NextInject]_vars

\* ------------------------------------------------ the command's arguments
\* newTunnelCommand run with one destination argument and one --server value,
\* before it dials.
InitParse ==
    /\ connMap = [k \in Keys |-> NoConn]
    /\ requestChannelMap = {}
    /\ requestCounts = [k \in {} |-> 0]
    /\ maxPerTunnel = MaxCeiling
    /\ bodyReads = MaxReads
    /\ cmd \in {Command(d, u) : d \in DestinationInputs, u \in ServerInputs}
    /\ call = NoCall
    /\ chan = [r \in Requests |-> [buf |-> <<>>, closed |-> FALSE]]
    /\ conn = [s \in Sessions |-> "none"]
    /\ down = [s \in Sessions |-> <<>>]
    /\ up = [s \in Sessions |-> <<>>]
    /\ sess = [s \in Sessions |-> [pc |-> "Idle", key |-> "", msg |-> NoMessage, ch |-> NoChan, exit |-> "", reply |-> 0]]
    /\ hnd = [r \in Requests |-> [pc |-> "Idle", host |-> <<>>, sub |-> "", conn |-> NoConn, msg |-> NoMessage, err |-> "", body |-> NoBody]]
    /\ out = [r \in Requests |-> NoResponse]
    /\ cli = [s \in Sessions |-> "Idle"]
    /\ fwd = [r \in Requests |->
                [pc |-> "None", conn |-> NoConn, first |-> TRUE, reads |-> 0,
                 msg |-> NoMessage, last |-> "", exit |-> "", err |-> ""]]
    /\ sentReq = {}
    /\ droppedLive = {}
    /\ delivered = [r \in Requests |-> <<>>]
    /\ emitted = [r \in Requests |-> <<>>]

ParseArgsIgnoresDestinationError ==
    /\ cmd.pc = "Args"
    /\ LET d == ParseDestination(cmd.dest)
           u == ParseServerURL(cmd.server)
       IN  cmd' = IF u.err
                  THEN [cmd EXCEPT !.pc = "Failed", !.destination = d.text, !.serverErr = TRUE]
                  ELSE [cmd EXCEPT !.pc = "Dial", !.destination = d.text, !.serverWS = u.text]
    /\ UNCHANGED <<connMap, requestChannelMap, requestCounts, maxPerTunnel, bodyReads, call, chan, conn, down, up,
                   sess, hnd, out, cli, fwd, sentReq, droppedLive, delivered, emitted>>

ParseArgsIgnoresServerError ==
    /\ cmd.pc = "Args"
    /\ LET d == ParseDestination(cmd.dest)
           u == ParseServerURL(cmd.server)
       IN  cmd' = IF d.err
                  THEN [cmd EXCEPT !.pc = "Failed", !.destErr = TRUE]
                  ELSE [cmd EXCEPT !.pc = "Dial", !.destination = d.text, !.serverWS = u.text]
    /\ UNCHANGED <<connMap, requestChannelMap, requestCounts, maxPerTunnel, bodyReads, call, chan, conn, down, up,
                   sess, hnd, out, cli, fwd, sentReq, droppedLive, delivered, emitted>>

\* RunE up to the dial: ParseDestination(args[0]), then ParseServerURL(serverUrl);
\* the first error is returned.
ParseArgs ==
    /\ cmd.pc = "Args"
    /\ LET d == ParseDestination(cmd.dest)
           u == ParseServerURL(cmd.server)
       IN  cmd' = CASE d.err -> [cmd EXCEPT !.pc = "Failed", !.destErr = TRUE]
                    [] ~d.err /\ u.err ->
                         [cmd EXCEPT !.pc = "Failed", !.destination = d.text, !.serverErr = TRUE]
                    [] OTHER ->
                         [cmd EXCEPT !.pc = "Dial", !.destination = d.text, !.serverWS = u.text]
    /\ UNCHANGED <<connMap, requestChannelMap, requestCounts, maxPerTunnel, bodyReads, call, chan, conn, down, up,
                   sess, hnd, out, cli, fwd, sentReq, droppedLive, delivered, emitted>>

NextParse == ParseArgs

SpecParse == InitParse /\ [][NextParse]_vars

\* ------------------------------------------ writeProxiedResponse on its own
\* The function called as its tests call it: request 1 is at its first wait,
\* its channel was filled (and maybe closed) by the caller and is not in the
\* Request Manager, so that the deferred RemoveRequest finds nothing.

\* A response as a client sends it: status and headers with the first fragment
\* only; f[i].n is the byte count of fragment i, whose bytes are <<i>>.
ResponseFragments(r, f) ==
    [i \in DOMAIN f |->
        Message("response", r, IF i = 1 THEN OriginStatus ELSE 0, i = 1,
                IF f[i].n > 0 THEN <<i>> ELSE <<>>, f[i].done)]

ProxyMailboxes ==
    UNION {{ResponseFragments(1, f) : f \in [1 .. n -> [n : {0, 1}, done : BOOLEAN]]} :
              n \in 0 .. MaxFragments}

InitProxy ==
    /\ connMap = [k \in Keys |-> NoConn]
    /\ requestChannelMap = {}
    /\ requestCounts = [k \in {} |-> 0]
    /\ maxPerTunnel = MaxCeiling
    /\ bodyReads = MaxReads
    /\ cmd = CommandDialing
    /\ call = NoCall
    /\ \E mailbox \in ProxyMailboxes, closed \in BOOLEAN :
         /\ chan = [r \in Requests |-> IF r = 1 THEN [buf |-> mailbox, closed |-> closed]
                                                ELSE [buf |-> <<>>, closed |-> FALSE]]
         /\ delivered = [r \in Requests |-> IF r = 1 THEN mailbox ELSE <<>>]
    /\ conn = [s \in Sessions |-> "none"]
    /\ down = [s \in Sessions |-> <<>>]
    /\ up = [s \in Sessions |-> <<>>]
    /\ sess = [s \in Sessions |-> [pc |-> "Idle", key |-> "", msg |-> NoMessage, ch |-> NoChan, exit |-> "", reply |-> 0]]
    /\ hnd = [r \in Requests |->
                [pc |-> IF r = 1 THEN "Wait" ELSE "Idle", host |-> <<>>, sub |-> "",
                 conn |-> NoConn, msg |-> NoMessage, err |-> "", body |-> NoBody]]
    /\ out = [r \in Requests |-> NoResponse]
    /\ cli = [s \in Sessions |-> "Idle"]
    /\ fwd = [r \in Requests |->
                [pc |-> "None", conn |-> NoConn, first |-> TRUE, reads |-> 0,
                 msg |-> NoMessage, last |-> "", exit |-> "", err |-> ""]]
    /\ sentReq = {}
    /\ droppedLive = {}
    /\ emitted = [r \in Requests |-> <<>>]

NextProxy ==
    \E r \in Requests :
        \/ HandlerReceive(r)
        \/ HandlerTimeout(r)
        \/ HandlerWrite(r)
        \/ HandlerWriteFails(r)
        \/ HandlerFlush(r)

SpecProxy == InitProxy /\ [][NextProxy]_vars

\* ------------------------------------------- a response that does not end
\* The session loop's send into the mailbox (ch <- msg) for a client that keeps
\* sending fragments of request r: the first one carries the status and the
\* headers, every one has no bytes and is final or not.  The send waits while
\* the mailbox is full.
MailboxSend(r) ==
    /\ ~chan[r].closed
    /\ Len(chan[r].buf) < MailboxCap
    /\ \E done \in BOOLEAN :
         LET first == out[r].recvd = 0 /\ chan[r].buf = <<>> IN
         chan' = [chan EXCEPT ![r].buf =
                     Append(@, Message("response", r, IF first THEN OriginStatus ELSE 0,
                                       first, <<>>, done))]
    /\ UNCHANGED <<maxPerTunnel, bodyReads, cmd, call, connMap, requestChannelMap, requestCounts, conn, down, up,
                   sess, hnd, out, cli, fwd, sentReq, droppedLive, delivered, emitted>>

\* handleRequest of request 1 has written the request to a live tunnel and
\* registered its mailbox: it enters writeProxiedResponse.
InitStream ==
    /\ \E key \in Keys :
         /\ connMap = [k \in Keys |-> IF k = key THEN 1 ELSE NoConn]
         /\ requestCounts = SetCount([k \in {} |-> 0], key, 1)
         /\ sess = [s \in Sessions |->
                      [pc |-> IF s = 1 THEN "Serving" ELSE "Idle", key |-> IF s = 1 THEN key ELSE "",
                       msg |-> NoMessage, ch |-> NoChan, exit |-> "", reply |-> 0]]
         /\ hnd = [r \in Requests |->
                      IF r = 1
                      THEN [pc |-> "Wait", host |-> <<key, "example", "com">>, sub |-> key,
                            conn |-> 1, msg |-> NoMessage, err |-> "",
                            body |-> [size |-> MaxBodySize, fails |-> FALSE]]
                      ELSE [pc |-> "Idle", host |-> <<>>, sub |-> "", conn |-> NoConn,
                            msg |-> NoMessage, err |-> "", body |-> NoBody]]
    /\ requestChannelMap = {1}
    /\ maxPerTunnel = MaxCeiling
    /\ bodyReads = MaxReads
    /\ cmd = CommandDialing
    /\ call = NoCall
    /\ chan = [r \in Requests |-> [buf |-> <<>>, closed |-> FALSE]]
    /\ conn = [s \in Sessions |-> IF s = 1 THEN "open" ELSE "none"]
    /\ down = [s \in Sessions |-> <<>>]
    /\ up = [s \in Sessions |-> <<>>]
    /\ out = [r \in Requests |-> NoResponse]
    /\ cli = [s \in Sessions |-> IF s = 1 THEN "Accepting" ELSE "Idle"]
    /\ fwd = [r \in Requests |->
                [pc |-> "None", conn |-> NoConn, first |-> TRUE, reads |-> 0,
                 msg |-> NoMessage, last |-> "", exit |-> "", err |-> ""]]
    /\ sentReq = {1}
    /\ droppedLive = {}
    /\ delivered = [r \in Requests |-> <<>>]
    /\ emitted = [r \in Requests |-> <<>>]

NextStream ==
    \E r \in Requests :
        \/ HandlerReceive(r)
        \/ HandlerTimeout(r)
        \/ HandlerWrite(r)
        \/ HandlerWriteFails(r)
        \/ HandlerFlush(r)
        \/ MailboxSend(r)

\* The handler goroutine is scheduled while it can run, and a timer that is
\* not overtaken by a fragment fires; nothing is assumed of the sender.
SpecStream == InitStream /\ [][NextStream]_vars /\ \A r \in Requests : WF_vars(HandlerStep(r))

\* ------------------------------------------------- a mailbox that fills up
\* The client has accepted request 1 and its forwarder reads an origin body
\* long enough to overfill the mailbox, while the handler waits.
InitFull ==
    /\ \E key \in Keys :
         /\ connMap = [k \in Keys |-> IF k = key THEN 1 ELSE NoConn]
         /\ requestCounts = SetCount([k \in {} |-> 0], key, 1)
         /\ sess = [s \in Sessions |->
                      [pc |-> IF s = 1 THEN "Serving" ELSE "Idle", key |-> IF s = 1 THEN key ELSE "",
                       msg |-> NoMessage, ch |-> NoChan, exit |-> "", reply |-> 0]]
         /\ hnd = [r \in Requests |->
                      IF r = 1
                      THEN [pc |-> "Wait", host |-> <<key, "example", "com">>, sub |-> key,
                            conn |-> 1, msg |-> NoMessage, err |-> "",
                            body |-> [size |-> MaxBodySize, fails |-> FALSE]]
                      ELSE [pc |-> "Idle", host |-> <<>>, sub |-> "", conn |-> NoConn,
                            msg |-> NoMessage, err |-> "", body |-> NoBody]]
    /\ requestChannelMap = {1}
    /\ maxPerTunnel = MaxCeiling
    /\ bodyReads = MailboxCap + 1
    /\ cmd = CommandDialing
    /\ call = NoCall
    /\ chan = [r \in Requests |-> [buf |-> <<>>, closed |-> FALSE]]
    /\ conn = [s \in Sessions |-> IF s = 1 THEN "open" ELSE "none"]
    /\ down = [s \in Sessions |-> <<>>]
    /\ up = [s \in Sessions |-> <<>>]
    /\ out = [r \in Requests |-> NoResponse]
    /\ cli = [s \in Sessions |-> IF s = 1 THEN "Accepting" ELSE "Idle"]
    /\ fwd = [r \in Requests |->
                [pc |-> IF r = 1 THEN "Read" ELSE "None", conn |-> IF r = 1 THEN 1 ELSE NoConn,
                 first |-> TRUE, reads |-> 0, msg |-> NoMessage, last |-> "", exit |-> "", err |-> ""]]
    /\ sentReq = {1}
    /\ droppedLive = {}
    /\ delivered = [r \in Requests |-> <<>>]
    /\ emitted = [r \in Requests |-> <<>>]

NextFull ==
    \/ \E s \in Sessions :
         \/ SessionRead(s)
         \/ SessionDeliver(s)
    \/ \E r \in Requests :
         \/ HandlerReceive(r)
         \/ HandlerTimeout(r)
         \/ HandlerWrite(r)
         \/ HandlerWriteFails(r)
         \/ HandlerFlush(r)
         \/ FwdRead(r)
         \/ FwdWriteBegin(r)
         \/ FwdWriteEnd(r)

SpecFull == InitFull /\ [][NextFull]_vars

\* ================================================================ claims

\* C1: on any one tunnel transport at most one write-one-message is in progress
\* at a time, on the ingress side (the session handler's registration write and
\* the public handlers' request writes) and on the client side (the forwarders'
\* fragment writes).
C1_WritesNeverOverlap ==
    \A s \in Sessions :
        /\ Cardinality(IngressWriters(s)) <= 1
        /\ Cardinality(ClientWriters(s)) <= 1

\* C2: the session loop never has a send attempted or pending on a mailbox that
\* RemoveRequest has closed.
C2_NoSendOnClosedMailbox ==
    \A s \in Sessions : sess[s].pc = "Deliver" => ~chan[sess[s].ch].closed

\* C3: no fragment is dropped for a request whose handler has transmitted the
\* request and has not yet returned.
C3_DroppedOnlyLate == droppedLive = {}

\* C4: whenever a request message has been written to the transport, the
\* request's mailbox had been registered (it is in the map, or was and has since
\* been closed and removed).
C4_RegisteredBeforeTransmit ==
    \A r \in sentReq : r \in requestChannelMap \/ chan[r].closed

\* C5: a public request answered 503 for the per-tunnel ceiling has had no
\* request message transmitted to the client.
C5_NoTransmitWhenRejected ==
    \A r \in Requests : out[r].status = StatusServiceUnavailable => r \notin sentReq

\* C6: in the sequence of fragments put into a mailbox, a done=true fragment is
\* the last one: only done=false fragments precede it and nothing follows it.
C6_DoneOnlyLast ==
    \A r \in Requests :
        \A i \in 1 .. Len(delivered[r]) : delivered[r][i].done => i = Len(delivered[r])

C6_Witness ==
    \E r \in Requests :
        /\ Len(delivered[r]) = 2
        /\ ~delivered[r][1].done
        /\ delivered[r][2].done

\* C7: when the forwarder has read the origin body to end-of-file with no read
\* or write error, the last fragment it emitted has done=true.
C7_EofEndsWithDone ==
    \A r \in Requests :
        fwd[r].exit = "eof" => emitted[r] # <<>> /\ emitted[r][Len(emitted[r])].done

\* C8: after a failed dispatch to the origin the forwarder has emitted exactly
\* one fragment, with status 502 and done=true.
C8_DispatchFailureFragment ==
    \A r \in Requests :
        fwd[r].exit = "dispatchFail" =>
            /\ Len(emitted[r]) = 1
            /\ emitted[r][1].status = StatusBadGateway
            /\ emitted[r][1].done

\* C9: every fragment taken from the mailbox is written and flushed before the
\* next receive: at a receive all fragments received are written and flushed, a
\* flush follows each write, and in the end flushes and writes are equal in number.
C9_FlushBeforeNextReceive ==
    \A r \in Requests :
        /\ hnd[r].pc = "Wait" =>
              out[r].writes = out[r].recvd /\ out[r].flushes = out[r].writes
        /\ hnd[r].pc = "Write" =>
              out[r].writes = out[r].recvd - 1 /\ out[r].flushes = out[r].writes
        /\ hnd[r].pc = "Flush" =>
              out[r].writes = out[r].recvd /\ out[r].flushes = out[r].writes - 1
        /\ hnd[r].pc = "Done" => out[r].flushes = out[r].writes

C9_Witness ==
    \E r \in Requests :
        /\ hnd[r].pc = "Wait"
        /\ out[r].recvd = 1
        /\ out[r].flushes = 1
        /\ chan[r].buf # <<>>

\* C10: the fragments put into a request's mailbox are, in the same order, a
\* run of consecutive fragments of those its forwarder emitted.
C10_MailboxOrder ==
    \A r \in Requests :
        \E k \in 0 .. Len(emitted[r]) :
            /\ k + Len(delivered[r]) <= Len(emitted[r])
            /\ \A i \in 1 .. Len(delivered[r]) : delivered[r][i] = emitted[r][k + i]

\* Two fragments of one request in its mailbox while a fragment of another
\* request of the same tunnel is being delivered.
C10_Witness ==
    \E s \in Sessions : \E r, q \in Requests :
        /\ r # q
        /\ Len(delivered[r]) = 2
        /\ sess[s].pc = "Deliver"
        /\ sess[s].msg.id = q
        /\ fwd[r].conn = s

\* The mailboxes the Request Manager holds for a subdomain: the ids in the map
\* whose handler registered them under it.
LiveMailboxes(subdomain) == {r \in requestChannelMap : hnd[r].sub = subdomain}

\* C11: each subdomain's active-request counter equals the number of live
\* mailboxes registered for it, is never negative and never exceeds the
\* per-tunnel ceiling.
C11_CountEqualsLiveMailboxes ==
    \A k \in DOMAIN requestCounts \cup {hnd[r].sub : r \in requestChannelMap} :
        /\ Count(requestCounts, k) = Cardinality(LiveMailboxes(k))
        /\ Count(requestCounts, k) >= 0
        /\ Count(requestCounts, k) <= maxPerTunnel

\* The ceiling is met by two live mailboxes while a third request has not
\* registered yet, or one of two has been removed again.
C11_Witness ==
    \E k \in Keys :
        /\ maxPerTunnel = 2
        /\ Count(requestCounts, k) = 2
        /\ Cardinality(LiveMailboxes(k)) = 2

\* C12: a successful RegisterRequest(id, sub) adds one to the subdomain's count
\* and the RemoveRequest(id, sub) that follows takes one off, so the count is
\* back at its value before the register; when that is zero the subdomain has
\* no entry in the counts map.
C12_RegisterThenRemove ==
    [][\A r \in Requests :
          LET sub == hnd[r].sub IN
          /\ (r \notin requestChannelMap /\ r \in requestChannelMap') =>
                Count(requestCounts', sub) = Count(requestCounts, sub) + 1
          /\ (r \in requestChannelMap /\ r \notin requestChannelMap') =>
                /\ Count(requestCounts', sub) = Count(requestCounts, sub) - 1
                /\ Count(requestCounts', sub) = 0 => sub \notin DOMAIN requestCounts']_vars

\* A request registered on an idle subdomain and was removed again: the counts
\* map is empty as before.
C12_Witness ==
    \E r \in Requests :
        /\ hnd[r].pc = "Done"
        /\ chan[r].closed
        /\ requestChannelMap = {}
        /\ DOMAIN requestCounts = {}

\* C13: RegisterRequest at the per-tunnel ceiling fails, makes no mailbox and
\* leaves both maps as they were, and the handler replies 503; below the ceiling
\* it makes an empty open mailbox (of capacity 5) and adds exactly one to the count.
C13_RegisterAtCeiling ==
    /\ [](\A r \in Requests : Len(chan[r].buf) <= MailboxCap)
    /\ [][\A r \in Requests :
            (hnd[r].pc = "Sent" /\ hnd'[r].pc # "Sent") =>
               IF Count(requestCounts, hnd[r].sub) >= maxPerTunnel
               THEN /\ UNCHANGED <<requestChannelMap, requestCounts, chan>>
                    /\ out'[r].status = StatusServiceUnavailable
                    /\ hnd'[r].pc = "Done"
               ELSE /\ requestChannelMap' = requestChannelMap \cup {r}
                    /\ r \notin requestChannelMap
                    /\ chan'[r] = [buf |-> <<>>, closed |-> FALSE]
                    /\ Count(requestCounts', hnd[r].sub) = Count(requestCounts, hnd[r].sub) + 1
                    /\ hnd'[r].pc = "Wait"]_vars

\* One request was refused at the ceiling while another holds the only mailbox.
C13_Witness ==
    \E r, q \in Requests :
        /\ out[r].status = StatusServiceUnavailable
        /\ hnd[r].pc = "Done"
        /\ r \notin requestChannelMap
        /\ q \in requestChannelMap
        /\ Count(requestCounts, hnd[q].sub) = maxPerTunnel

\* C14: the number of entries in the Connection Store never exceeds the
\* configured tunnel ceiling.
C14_StoreWithinCeiling == Cardinality(LiveKeys) <= MaxTunnels

\* C15: a register call made while the live tunnel count equals the ceiling
\* fails with MaxTunnels and leaves the store unchanged, and the handler answers
\* that attempt with HTTP 503.
C15_RegisterAtTunnelCeiling ==
    [][\A s \in DOMAIN sess :
          (sess[s].pc = "Idle" /\ sess'[s].pc # "Idle" /\ sess'[s].exit # "upgrade500"
             /\ Cardinality(LiveKeys) = MaxTunnels) =>
                /\ connMap' = connMap
                /\ sess'[s].pc = "Closed"
                /\ sess'[s].reply = StatusServiceUnavailable]_vars

\* C16: two live tunnels never share a subdomain key: register never replaces
\* the entry of a tunnel whose session is still running.
C16_NoSharedKey ==
    \A s, t \in DOMAIN sess :
        (s # t /\ sess[s].pc \in {"Registering", "RegWriting", "Serving", "Deliver"}
               /\ sess[t].pc \in {"Registering", "RegWriting", "Serving", "Deliver"}) =>
            sess[s].key # sess[t].key

\* C17: when a session handler that obtained a key returns on a failed
\* registration send or on a read failure, the Connection Store holds no entry
\* for that key.
C17_NoEntryOutlivesSession ==
    \A s \in DOMAIN sess :
        (sess[s].pc = "Closed" /\ sess[s].exit \in {"sendreg500", "readfail"}) =>
            connMap[sess[s].key] = NoConn

\* C18: a public handler that registered a mailbox returns, by whatever path,
\* with the id out of the Request Manager's map, the mailbox closed (once, at that
\* return and nowhere else) and the subdomain's count one lower (once).
C18_ReturnRemovesMailbox ==
    /\ [](\A r \in Requests : hnd[r].pc = "Done" => r \notin requestChannelMap)
    /\ [][\A r \in Requests :
            LET returns == hnd[r].pc \in {"Wait", "Write", "Flush"} /\ hnd'[r].pc = "Done" IN
            /\ returns =>
                  /\ r \in requestChannelMap /\ r \notin requestChannelMap'
                  /\ ~chan[r].closed /\ chan'[r].closed
                  /\ Count(requestCounts', hnd[r].sub) = Count(requestCounts, hnd[r].sub) - 1
            /\ (chan'[r].closed # chan[r].closed
                  \/ (r \in requestChannelMap /\ r \notin requestChannelMap')) => returns]_vars

\* One handler returned on the first-fragment timeout and another after the
\* done fragment of a two-fragment response.
C18_Witness ==
    \E r, q \in Requests :
        /\ hnd[r].pc = "Done" /\ chan[r].closed /\ out[r].status = StatusGatewayTimeout
        /\ hnd[q].pc = "Done" /\ chan[q].closed /\ out[q].flushes = 2
        /\ requestChannelMap = {}
        /\ DOMAIN requestCounts = {}

\* C19: the registration message is the first message the ingress writes on a
\* tunnel's transport: while the session has not finished sending it, no request
\* message has been written to that transport.
C19_RegistrationFirst ==
    \A r \in sentReq : sess[hnd[r].conn].pc \notin {"Idle", "Registering", "RegWriting"}

\* C20: a session moves Upgrading -> Registering -> Serving -> Closed only, never
\* back and never out of Closed; closed by a failure while Upgrading or
\* Registering it has replied with an HTTP error, closed while Serving with nothing.
C20_SessionStateMachine ==
    /\ [](\A s \in DOMAIN sess :
            sess[s].pc = "Closed" =>
               IF sess[s].exit \in {"upgrade500", "maxTunnels503", "register500", "sendreg500"}
               THEN sess[s].reply >= StatusBadRequest
               ELSE sess[s].reply = 0)
    /\ [][\A s \in DOMAIN sess :
            /\ SessionPhase(sess'[s].pc) >= SessionPhase(sess[s].pc)
            /\ sess[s].pc = "Closed" => sess'[s] = sess[s]]_vars

\* C21: every public request handler eventually returns, whatever the client and
\* the session do: a wait on the mailbox ends on a done fragment, on closure or
\* on the timer of that wait.
C21_HandlerReturns ==
    \A r \in Requests : (hnd[r].pc # "Idle") ~> (hnd[r].pc = "Done")

\* C22: a session loop whose send into a full mailbox is blocked goes on reading
\* the tunnel once the blocked send is over (the handler has returned and its
\* mailbox was closed).
C22_BlockedSessionGoesOn ==
    [][\A s \in Sessions :
         (/\ sess[s].pc = "Deliver"
          /\ Len(chan[sess[s].ch].buf) = MailboxCap
          /\ sess'[s].pc # "Deliver")
         => sess'[s].pc = "Serving"]_vars

\* C23: a mailbox found closed before any fragment was received makes the
\* handler fail with TunnelNotResponding, answered 502; the public response
\* carries no status, header or body of a fragment.
C23_ClosedBeforeFirst ==
    /\ [](\A r \in Requests :
            hnd[r].err = "TunnelNotRespondingError" =>
                /\ hnd[r].pc = "Done"
                /\ out[r] = [NoResponse EXCEPT !.status = StatusBadGateway])
    /\ [][\A r \in Requests :
            (/\ hnd[r].pc = "Wait"
             /\ out[r].recvd = 0
             /\ chan[r].closed /\ chan[r].buf = <<>>
             /\ hnd'[r].pc = "Done"
             /\ hnd'[r].err # "TimeoutError")
            => hnd'[r].err = "TunnelNotRespondingError"]_vars

\* A handler found its mailbox closed at its first receive and was answered 502.
C23_Witness ==
    \E r \in Requests :
        /\ hnd[r].pc = "Done"
        /\ hnd[r].err = "TunnelNotRespondingError"
        /\ out[r].status = StatusBadGateway
        /\ chan[r].closed

\* C24: when the timer of the wait for the first fragment fires, the handler
\* replies HTTP 504 and returns; nothing else was written to the public response.
C24_FirstWaitTimeout ==
    [][\A r \in Requests :
         (/\ hnd[r].pc = "Wait"
          /\ out[r].recvd = 0
          /\ ~chan[r].closed
          /\ hnd'[r].pc = "Done")
         => /\ out'[r] = [NoResponse EXCEPT !.status = StatusGatewayTimeout]
            /\ hnd'[r].err = "TimeoutError"]_vars

\* A handler returned on the timer of its first wait, with the 504 reply.
C24_Witness ==
    \E r \in Requests :
        /\ hnd[r].pc = "Done"
        /\ hnd[r].err = "TimeoutError"
        /\ out[r].status = StatusGatewayTimeout

\* C25: after the first fragment was written, a mailbox found closed or the
\* timer of a later wait ends the response silently: the public response stays
\* as it is and the handler returns no error.
C25_SilentEnd ==
    [][\A r \in Requests :
         (hnd[r].pc = "Wait" /\ out[r].recvd >= 1 /\ hnd'[r].pc = "Done")
         => out'[r] = out[r] /\ hnd'[r].err = "nil"]_vars

\* A handler wrote and flushed every fragment its closed mailbox held, none of
\* them final, and returned.
C25_Witness ==
    \E r \in Requests :
        /\ hnd[r].pc = "Done"
        /\ hnd[r].err = "nil"
        /\ chan[r].closed /\ chan[r].buf = <<>>
        /\ out[r].recvd >= 1
        /\ out[r].flushes = out[r].recvd
        /\ \A i \in 1 .. Len(delivered[r]) : ~delivered[r][i].done

\* The index of the first final fragment of a sequence, 0 when it has none.
FirstDone(f) ==
    IF \E i \in 1 .. Len(f) : f[i].done
    THEN CHOOSE i \in 1 .. Len(f) : f[i].done /\ \A j \in 1 .. (i - 1) : ~f[j].done
    ELSE 0

\* The bodies of the first n fragments of a sequence, one after the other.
RECURSIVE BodiesUpTo(_, _)
BodiesUpTo(f, n) == IF n = 0 THEN <<>> ELSE BodiesUpTo(f, n - 1) \o f[n].body

\* C26: a handler that has received the fragments delivered to its mailbox up
\* to the final one returns without error, and (unless a write to the public
\* caller failed) the public response has the status and headers of the first
\* fragment and the bodies of all of them, in order.
C26_ResponseOfFragments ==
    \A r \in Requests :
        LET k == FirstDone(delivered[r]) IN
        (k > 0 /\ hnd[r].pc = "Done" /\ out[r].recvd = k) =>
            /\ hnd[r].err = "nil"
            /\ out[r].writes = k =>
                 /\ out[r].status = delivered[r][1].status
                 /\ out[r].hdr = delivered[r][1].hdr
                 /\ out[r].body = BodiesUpTo(delivered[r], k)

\* C27: on a read error that is not end-of-file the forwarder emits the one
\* error fragment (status 502, done) when it has emitted nothing for the request,
\* and nothing more when it has emitted a fragment already.
C27_ReadError ==
    /\ [](\A r \in Requests :
            fwd[r].exit = "readErr" =>
                \/ emitted[r] = <<Message("response", r, StatusBadGateway, FALSE, ErrorBody, TRUE)>>
                \/ /\ emitted[r] # <<>>
                   /\ \A i \in 1 .. Len(emitted[r]) :
                         ~emitted[r][i].done /\ emitted[r][i].status # StatusBadGateway)
    /\ [][\A r \in Requests :
            (fwd[r].pc = "Read" /\ (fwd'[r].last = "readErr" \/ fwd'[r].exit = "readErr"))
            => IF emitted[r] = <<>>
               THEN emitted'[r] = <<Message("response", r, StatusBadGateway, FALSE, ErrorBody, TRUE)>>
               ELSE emitted'[r] = emitted[r] /\ fwd'[r].pc = "Done"]_vars

\* A forwarder ended on a read error in mid-stream, after the first fragment.
C27_Witness ==
    \E r \in Requests :
        /\ fwd[r].exit = "readErr"
        /\ emitted[r] # <<>>
        /\ emitted[r][1].status = OriginStatus

\* C28: the forwarder emits no fragment that has a zero-length body and
\* done = false, whatever the reads of the origin body return.
C28_NoEmptyFragment ==
    \A r \in Requests : \A i \in 1 .. Len(emitted[r]) :
        ~(emitted[r][i].body = <<>> /\ ~emitted[r][i].done)

\* C29: a public request whose host's first label is no key of the Connection
\* Store is answered 404 at once: no message goes onto a tunnel, no mailbox is
\* registered, and none is later.
C29_UnknownSubdomain ==
    /\ [](\A r \in Requests :
            (hnd[r].pc # "Idle" /\ out[r].status = StatusNotFound) =>
                /\ hnd[r].pc = "Done"
                /\ r \notin sentReq
                /\ r \notin requestChannelMap)
    /\ [][\A r \in Requests :
            (/\ hnd[r].pc = "Idle"
             /\ hnd'[r].pc # "Idle"
             /\ Len(hnd'[r].host) >= 2
             /\ hnd'[r].host[1] \notin LiveKeys)
            => /\ out'[r] = [NoResponse EXCEPT !.status = StatusNotFound]
               /\ hnd'[r].pc = "Done"
               /\ UNCHANGED <<down, up, sentReq, chan, requestChannelMap, requestCounts>>]_vars

\* A request for a subdomain nobody holds was refused while a tunnel was live.
C29_Witness ==
    \E r \in Requests :
        /\ hnd[r].pc = "Done"
        /\ hnd[r].host = <<"ghost", "example", "com">>
        /\ out[r].status = StatusNotFound
        /\ LiveKeys # {}

\* C30: the subdomain of a host of two labels or more is its first label, a
\* host of fewer has none; such a host is answered 400 whatever the Connection
\* Store holds, and the store and the Request Manager stay as they were.
C30_InvalidSubdomain ==
    /\ [](/\ ExtractAssignedSubdomain(<<"sub", "example", "com">>) = "sub"
          /\ ExtractAssignedSubdomain(<<"localhost">>) = ""
          /\ \A h \in Hosts : ExtractAssignedSubdomain(h) = IF Len(h) >= 2 THEN h[1] ELSE "")
    /\ [][\A r \in Requests :
            (/\ hnd[r].pc = "Idle"
             /\ hnd'[r].pc # "Idle"
             /\ Len(hnd'[r].host) < 2)
            => /\ out'[r] = [NoResponse EXCEPT !.status = StatusBadRequest]
               /\ hnd'[r].pc = "Done"
               /\ UNCHANGED <<connMap, requestChannelMap, requestCounts, chan, down, up, sentReq>>]_vars

\* A request with a bare host name was refused 400 while a tunnel was live.
C30_Witness ==
    \E r \in Requests :
        /\ hnd[r].pc = "Done"
        /\ hnd[r].host = <<"localhost">>
        /\ out[r].status = StatusBadRequest
        /\ LiveKeys # {}

\* C31: a public request whose body is longer than 4 MiB is answered 413, no
\* request message goes to the client and no mailbox is registered; a body of
\* 4 MiB or less is not refused for its size.
C31_BodyTooLarge ==
    /\ [](\A r \in Requests :
            (hnd[r].pc # "Idle" /\ out[r].status = StatusRequestEntityTooLarge) =>
                /\ hnd[r].pc = "Done"
                /\ r \notin sentReq
                /\ r \notin requestChannelMap)
    /\ [][\A r \in Requests :
            (/\ hnd[r].pc = "Idle"
             /\ hnd'[r].pc # "Idle"
             /\ hnd'[r].body # NoBody
             /\ ~hnd'[r].body.fails)
            => IF hnd'[r].body.size > 4 * 1024 * 1024
               THEN /\ out'[r] = [NoResponse EXCEPT !.status = StatusRequestEntityTooLarge]
                    /\ hnd'[r].pc = "Done"
                    /\ UNCHANGED <<down, up, sentReq, chan, requestChannelMap, requestCounts>>
               ELSE /\ out'[r] = NoResponse
                    /\ hnd'[r].pc = "Accepted"]_vars

\* A request with a body of 4 MiB and one byte was refused 413 on a live tunnel.
C31_Witness ==
    \E r \in Requests :
        /\ hnd[r].pc = "Done"
        /\ hnd[r].body.size = 4 * 1024 * 1024 + 1
        /\ out[r].status = StatusRequestEntityTooLarge
        /\ GetConnection(hnd[r].host[1]) # NoConn

\* The steps that are calls of the Connection Store: the handler of tunnel s
\* registers its connection and gets key k; it removes key k.
StoreRegisters(s, k) == sess[s].pc = "Idle" /\ sess'[s].pc = "Registering" /\ sess'[s].key = k
StoreRemoves(s, k) == sess[s].pc = "Serving" /\ sess'[s].exit = "readfail" /\ sess[s].key = k

\* C32: get(key) gives the transport registered under key from the register
\* that returned key until key is removed; after the remove it gives NotFound
\* and the key is absent; no other step changes what get gives; get of a key
\* no register has returned gives NotFound.
C32_GetFollowsRegisterRemove ==
    /\ [](\A k \in DOMAIN connMap \cup {"nonexistent"} :
            (\A s \in DOMAIN sess : sess[s].key # k) => GetConnection(k) = NoConn)
    /\ [][\A k \in DOMAIN connMap :
            /\ \A s \in DOMAIN sess : StoreRegisters(s, k) => GetConnection(k)' = s
            /\ \A s \in DOMAIN sess :
                  StoreRemoves(s, k) => GetConnection(k)' = NoConn /\ k \notin LiveKeys'
            /\ (\A s \in DOMAIN sess : ~StoreRegisters(s, k) /\ ~StoreRemoves(s, k))
                  => GetConnection(k)' = GetConnection(k)]_vars

\* A key was registered, removed when its tunnel ended, and get finds nothing,
\* while another tunnel's key is still found.
C32_Witness ==
    \E s, t \in DOMAIN sess :
        /\ sess[s].exit = "readfail"
        /\ GetConnection(sess[s].key) = NoConn
        /\ sess[t].pc = "Serving"
        /\ GetConnection(sess[t].key) = t

\* C33: remove(key) deletes the entry of key and does nothing else: the other
\* entries stay, a remove of an absent key (a second remove of the same key
\* among them) leaves the store as it is, and no transport is closed by it.
C33_RemoveIdempotent ==
    [][\A s \in DOMAIN sess : \A k \in DOMAIN connMap :
         StoreRemoves(s, k) =>
            /\ \A j \in DOMAIN connMap \ {k} : connMap'[j] = connMap[j]
            /\ connMap'[k] = NoConn
            /\ connMap[k] = NoConn => connMap' = connMap
            /\ conn' = conn]_vars

\* Two tunnels that drew the same key have both ended: the key was removed twice.
C33_Witness ==
    \E s, t \in DOMAIN sess :
        /\ s # t
        /\ sess[s].key = sess[t].key
        /\ sess[s].exit = "readfail"
        /\ sess[t].exit = "readfail"

\* Whether text t begins with the scheme sch and "://".
HasScheme(t, sch) ==
    Len(t) >= Len(sch) + 3 /\ SubSeq(t, 1, Len(sch) + 3) = sch \o <<":", "/", "/">>

\* C34: the destination argument is accepted exactly when it is a decimal port
\* p with 1 <= p <= 65535, giving http://localhost:p, or host:port with such a
\* port, giving http://host:port; everything else ("0", "65536", a word, a host
\* without port, a host with port 99999) is an error, as the tests' table has it.
C34_DestinationParse ==
    cmd.pc # "Args" =>
        LET t == cmd.dest
            hostPort == \E i \in 2 .. Len(t) :
                           /\ t[i] = ":"
                           /\ \A j \in 1 .. (i - 1) : t[j] \notin {":", "/"}
                           /\ IsNumber(SubSeq(t, i + 1, Len(t)))
                           /\ Atoi(SubSeq(t, i + 1, Len(t))) \in 1 .. 65535
        IN  /\ \A c \in DestinationCases :
                  t = c.in => cmd.destErr = c.wantErr /\ cmd.destination = c.want
            /\ IsNumber(t) =>
                  /\ ~cmd.destErr <=> Atoi(t) \in 1 .. 65535
                  /\ ~cmd.destErr => cmd.destination = <<"h", "t", "t", "p", ":", "/", "/", "l", "o", "c", "a", "l", "h", "o", "s", "t", ":">> \o t
            /\ ~IsNumber(t) =>
                  /\ ~cmd.destErr <=> hostPort
                  /\ ~cmd.destErr => cmd.destination = <<"h", "t", "t", "p", ":", "/", "/">> \o t
            /\ cmd.destErr => cmd.pc = "Failed" /\ cmd.destination = <<>> /\ cmd.serverWS = <<>>

\* The command was run with destination 65536 and ended on the parse error.
C34_Witness ==
    /\ cmd.pc = "Failed"
    /\ cmd.dest = <<"6", "5", "5", "3", "6">>
    /\ cmd.destErr

\* C35: the --server value with no scheme or with http gives
\* ws://<host>/tunnel/connect, with https wss://<host>/tunnel/connect; any
\* other scheme (ftp, ws, wss among them) is an error, as the tests' table has it.
C35_ServerURLParse ==
    (cmd.pc # "Args" /\ ~cmd.destErr) =>
        LET t == cmd.server
            noScheme == \A i \in 1 .. (Len(t) - 2) : SubSeq(t, i, i + 2) # <<":", "/", "/">>
        IN  /\ \A c \in ServerURLCases :
                  t = c.in => cmd.serverErr = c.wantErr /\ cmd.serverWS = c.want
            /\ noScheme => ~cmd.serverErr /\ cmd.serverWS = <<"w", "s", ":", "/", "/">> \o t \o <<"/", "t", "u", "n", "n", "e", "l", "/", "c", "o", "n", "n", "e", "c", "t">>
            /\ HasScheme(t, <<"h", "t", "t", "p">>) =>
                  /\ ~cmd.serverErr
                  /\ cmd.serverWS = <<"w", "s", ":", "/", "/">> \o SubSeq(t, 8, Len(t)) \o <<"/", "t", "u", "n", "n", "e", "l", "/", "c", "o", "n", "n", "e", "c", "t">>
            /\ HasScheme(t, <<"h", "t", "t", "p", "s">>) =>
                  /\ ~cmd.serverErr
                  /\ cmd.serverWS = <<"w", "s", "s", ":", "/", "/">> \o SubSeq(t, 9, Len(t)) \o <<"/", "t", "u", "n", "n", "e", "l", "/", "c", "o", "n", "n", "e", "c", "t">>
            /\ (~noScheme /\ ~HasScheme(t, <<"h", "t", "t", "p">>) /\ ~HasScheme(t, <<"h", "t", "t", "p", "s">>)) =>
                  cmd.serverErr
            /\ cmd.serverErr => cmd.pc = "Failed" /\ cmd.serverWS = <<>>

\* The command was run with --server wss://example.com and ended on the parse
\* error, its destination having been accepted.
C35_Witness ==
    /\ cmd.pc = "Failed"
    /\ cmd.server = <<"w", "s", "s", ":", "/", "/", "e", "x", "a", "m", "p", "l", "e", ".", "c", "o", "m">>
    /\ cmd.serverErr
    /\ ~cmd.destErr

\* C36: a fragment read by the session loop of a tunnel goes only into the
\* mailbox of a request that was written to that tunnel.
C36_SingleProducer ==
    [][\A s \in DOMAIN sess : \A r \in Requests :
         (/\ sess[s].pc = "Deliver"
          /\ sess[s].ch = r
          /\ Len(delivered'[r]) > Len(delivered[r]))
         => hnd[r].conn = s]_vars

\* The read loop of request r's worker hands a fragment to WriteJSON in this step.
ReadEmits(r) ==
    /\ fwd[r].pc = "Read"
    /\ Len(emitted'[r]) = Len(emitted[r]) + 1

\* The fragment of such a step is the one the text of the claim describes: the
\* first of the request with the origin's status and the headers, a later one
\* with neither, done exactly when the read reported io.EOF.
FragmentOfChunk(r) ==
    LET m == emitted'[r][Len(emitted'[r])]
    IN  /\ emitted[r] = <<>> => m.status = OriginStatus /\ m.hdr
        /\ emitted[r] # <<>> => m.status = 0 /\ ~m.hdr
        /\ m.done <=> fwd'[r].err = "EOF"

\* C37 as stated: every fragment the read loop emits for a dispatched response
\* is the first with the origin status and the headers or a later one with the
\* body only, and is done exactly when its read reported end-of-file.
C37_EveryFragmentOfChunk ==
    [][\A r \in Requests : ReadEmits(r) => FragmentOfChunk(r)]_vars

\* C37: every fragment the read loop emits after a read that reported no error
\* other than end-of-file is the first with the origin status and the headers
\* or a later one with the body only, and is done exactly when that read
\* reported end-of-file.
C37_FragmentsOfChunks ==
    [][\A r \in Requests :
         ReadEmits(r) /\ fwd'[r].err # "err" => FragmentOfChunk(r)]_vars

\* C37: a worker has emitted a first fragment with the status and the headers
\* and now a later one with the body only, after a read that reported io.EOF.
C37_Witness ==
    \E r \in Requests :
        /\ fwd[r].pc = "Write"
        /\ fwd[r].err = "EOF"
        /\ Len(emitted[r]) = 2
        /\ emitted[r][1].status = OriginStatus /\ emitted[r][1].hdr /\ ~emitted[r][1].done
        /\ emitted[r][2].status = 0 /\ ~emitted[r][2].hdr /\ emitted[r][2].done

\* C38: a RemoveRequest for an id that has no mailbox, whatever the subdomain,
\* leaves the mailboxes (none is closed), the ids and the counts as they were.
C38_RemoveAbsent ==
    [][call'.op = "remove" /\ ~call'.ok
         => UNCHANGED <<chan, requestChannelMap, requestCounts>>]_vars

\* C38: RemoveRequest was called again for an id whose mailbox it had closed,
\* with a subdomain that has a live request, and the count is still there.
C38_Witness ==
    /\ call.op = "remove"
    /\ ~call.ok
    /\ Count(requestCounts, call.sub) > 0
    /\ chan[call.id].closed

\* C39: no status is given to a public response that has one already (neither
\* by http.Error nor by WriteHeader), and a handler that ended with an error
\* reply has written no fragment.
C39_StatusLineOnce ==
    \A r \in Requests :
        /\ ~out[r].late
        /\ hnd[r].err \notin {"", "nil"} => out[r].writes = 0

\* C39: one request has ended after its status and two fragment writes, another
\* with the 504 of the first wait and no write.
C39_Witness ==
    \E r, q \in Requests :
        /\ hnd[r].pc = "Done" /\ hnd[r].err = "nil"
        /\ out[r].status = OriginStatus /\ out[r].writes >= 2
        /\ hnd[q].pc = "Done" /\ hnd[q].err = "TimeoutError"
        /\ out[q].status = StatusGatewayTimeout /\ out[q].writes = 0

\* C40: the message the client reads while it waits for the registration is
\* the registration message (or a frame it cannot read), no request; every
\* request message the read loop reads gets a worker in the same step, and the
\* loop is back at reading.
C40_RegistrationThenWorkers ==
    [][\A s \in DOMAIN cli :
         (down[s] # <<>> /\ down'[s] = Tail(down[s])) =>
            LET m == Head(down[s]) IN
            /\ cli[s] = "WaitReg" => m.type \in {"register", "garbled"}
            /\ (cli[s] = "Accepting" /\ m.type = "request") =>
                  /\ fwd'[m.id].pc = "Dispatch"
                  /\ cli'[s] = "Accepting"]_vars

====
